---- MODULE Spec2Model ----
(***************************************************************************)
(* The static checker of the DwiSlpy front end (dwislpy-check.cc): the     *)
(* return-behaviour analysis of statements, blocks, definitions and the    *)
(* program, over the AST classes of dwislpy-ast.hh.                        *)
(*                                                                         *)
(* An AST node is a record with a field k naming its class.  A check is    *)
(* an operator that returns a record                                       *)
(*     [err |-> message or NoErr, rtns |-> Rtns, symt |-> SymT]            *)
(* where err # NoErr stands for the exception thrown by the check (the     *)
(* table is then left as it was at the throw), and symt is the table the   *)
(* check was handed by reference, as the check leaves it.                  *)
(*                                                                         *)
(* The evaluator of dwislpy-ast.cc (Prgm::run, Stmt::exec, Expn::eval) is  *)
(* modelled the same way, over values that carry the alternative of Valu   *)
(* they hold; what it writes on the standard output is not modelled.       *)
(***************************************************************************)
EXTENDS Integers, Sequences, FiniteSets, TLC

VARIABLES
    defs,       \* Prgm::defs: name -> Defn
    main,       \* Prgm::main: the script's block, or NullPtr
    main_symt,  \* Prgm::main_symt
    todo,       \* names of the definitions Prgm::chck has still to visit
    pc,         \* position in Prgm::chck, or in the check of one node
    err,        \* the message of the DwislpyError that ended the check, or NoErr
    stmt,       \* the node under check (one statement or one block)
    expd,       \* the expected-return context handed to the check
    symt,       \* the symbol table handed to the check
    out,        \* what the last check returned
    ran         \* what Prgm::run returned or threw, NoRun before it

vars == <<defs, main, main_symt, todo, pc, err, stmt, expd, symt, out, ran>>

\* ------------------------------------------------------------------ bounds
MaxArms == 2    \* if/elif arms of a conditional
MaxStmts == 2   \* statements of a block under check
MaxArgs == 2    \* arguments of a call under check
MaxSteps == 2   \* loop iterations and nested calls of one run

\* ------------------------------------------------------------------ types
\* Type is a variant of four empty alternatives; a value is its alternative.
INT_T == "IntTy"
STR_T == "StrTy"
BOOL_T == "BoolTy"
NONE_T == "NoneTy"
Type == {INT_T, STR_T, BOOL_T, NONE_T}

is_int(type) == type = INT_T
is_str(type) == type = STR_T
is_bool(type) == type = BOOL_T
is_None(type) == type = NONE_T

\* operator==(Type, Type): tag equality
TypeEq(type1, type2) ==
    \/ is_int(type1) /\ is_int(type2)
    \/ is_str(type1) /\ is_str(type2)
    \/ is_bool(type1) /\ is_bool(type2)
    \/ is_None(type1) /\ is_None(type2)

type_name(type) ==
    IF is_int(type) THEN "int"
    ELSE IF is_str(type) THEN "str"
    ELSE IF is_bool(type) THEN "bool"
    ELSE IF is_None(type) THEN "None"
    ELSE "wtf"

get_type_str(type) ==
    IF type = "IntTy" THEN "int"
    ELSE IF type = "StrTy" THEN "str"
    ELSE IF type = "BoolTy" THEN "bool"
    ELSE IF type = "NoneTy" THEN "None"
    ELSE "unknown"

\* ------------------------------------------------------------------ Rtns
Void == [tag |-> "Void"]
RtnsType(t) == [tag |-> "Type", type |-> t]
VoidOr(t) == [tag |-> "VoidOr", type |-> t]
RtnsSet == {Void} \cup {RtnsType(t) : t \in Type} \cup {VoidOr(t) : t \in Type}

IsVoid(rtns) == rtns.tag = "Void"
IsType(rtns) == rtns.tag = "Type"
IsVoidOr(rtns) == rtns.tag = "VoidOr"

type_of(rtns) ==
    IF IsVoidOr(rtns) THEN rtns.type
    ELSE IF IsType(rtns) THEN rtns.type
    ELSE NONE_T

has_void(rtns) == IsVoid(rtns) \/ IsVoidOr(rtns)

\* ------------------------------------------------------------------ errors
NoErr == ""
NullPtr == [k |-> "nullptr"]
\* the process ended by a signal: neither a return nor a DwislpyError
Crash == "SIGSEGV"

\* The value of a set of one element: Only({F(x) : x \in {e}}) is F(e), with e
\* evaluated once.
Only(S) == CHOOSE x \in S : TRUE

Thrown(msg, st) == [err |-> msg, rtns |-> Void, symt |-> st]
Returned(rtns, st) == [err |-> NoErr, rtns |-> rtns, symt |-> st]

\* ------------------------------------------------------------------ SymT
\* A table is a stack of frames, innermost last; a frame maps names to types.
EmptyFrame == [n \in {} |-> NONE_T]
NewSymT == <<EmptyFrame>>

mark(st) == Append(st, EmptyFrame)

pop_until_mark(st) == SubSeq(st, 1, Len(st) - 1)

is_redefining(st, name) == name \in DOMAIN st[Len(st)]

add_locl(st, name, type) ==
    [st EXCEPT ![Len(st)] =
        [n \in (DOMAIN st[Len(st)]) \cup {name} |->
            IF n = name THEN type ELSE st[Len(st)][n]]]

has_info(st, name) == \E i \in 1..Len(st) : name \in DOMAIN st[i]

get_info(st, name) ==
    LET i == CHOOSE j \in 1..Len(st) :
                 /\ name \in DOMAIN st[j]
                 /\ \A l \in (j+1)..Len(st) : name \notin DOMAIN st[l]
    IN  st[i][name]

\* ------------------------------------------------------------------ Valu
\* Valu is a variant of int, bool, std::string and none: t is the alternative
\* held, and i, s or b the value of an int, a string or a bool (the fields of
\* the other alternatives have a fixed filler).
IntV(n) == [t |-> "int", i |-> n, s |-> "", b |-> FALSE]
BoolV(b) == [t |-> "bool", i |-> 0, s |-> "", b |-> b]
StrV(str) == [t |-> "string", i |-> 0, s |-> str, b |-> FALSE]
None == [t |-> "none", i |-> 0, s |-> "", b |-> FALSE]

\* ------------------------------------------------------------------ AST
Ltrl(valu) == [k |-> "Ltrl", valu |-> valu]
Lkup(name) == [k |-> "Lkup", name |-> name]
Plus(left, rght) == [k |-> "Plus", left |-> left, rght |-> rght]
Mnus(left, rght) == [k |-> "Mnus", left |-> left, rght |-> rght]
Tmes(left, rght) == [k |-> "Tmes", left |-> left, rght |-> rght]
IDiv(left, rght) == [k |-> "IDiv", left |-> left, rght |-> rght]
IMod(left, rght) == [k |-> "IMod", left |-> left, rght |-> rght]
Imus(expn) == [k |-> "Imus", expn |-> expn]
Cmlt(lft, rht) == [k |-> "Cmlt", lft |-> lft, rht |-> rht]
Cmgt(lft, rht) == [k |-> "Cmgt", lft |-> lft, rht |-> rht]
Cmeq(lft, rht) == [k |-> "Cmeq", lft |-> lft, rht |-> rht]
Cmle(lft, rht) == [k |-> "Cmle", lft |-> lft, rht |-> rht]
Cmge(lft, rht) == [k |-> "Cmge", lft |-> lft, rht |-> rht]
Conj(lft, rht) == [k |-> "Conj", lft |-> lft, rht |-> rht]
Disj(lft, rht) == [k |-> "Disj", lft |-> lft, rht |-> rht]
Negt(expn) == [k |-> "Negt", expn |-> expn]
Inif(if_br, cond, else_br) ==
    [k |-> "Inif", if_br |-> if_br, cond |-> cond, else_br |-> else_br]
Inpt(expn) == [k |-> "Inpt", expn |-> expn]
IntC(expn) == [k |-> "IntC", expn |-> expn]
StrC(expn) == [k |-> "StrC", expn |-> expn]
FCll(name, args) == [k |-> "FCll", name |-> name, args |-> args]

Pass == [k |-> "Pass"]
PRtn == [k |-> "PRtn"]
FRtn(expn) == [k |-> "FRtn", expn |-> expn]
Ntro(name, type, expn) == [k |-> "Ntro", name |-> name, type |-> type, expn |-> expn]
Asgn(name, expn) == [k |-> "Asgn", name |-> name, expn |-> expn]
Pleq(name, expn) == [k |-> "Pleq", name |-> name, expn |-> expn]
Mneq(name, expn) == [k |-> "Mneq", name |-> name, expn |-> expn]
Prnt(expns) == [k |-> "Prnt", expns |-> expns]
PCll(name, args) == [k |-> "PCll", name |-> name, args |-> args]
Blck(stmts) == [k |-> "Blck", stmts |-> stmts]
Ifcd(cond, body) == [k |-> "Ifcd", cond |-> cond, body |-> body]
Else(body) == [k |-> "Else", body |-> body]
Cond(ifcds, els) == [k |-> "Cond", ifcds |-> ifcds, els |-> els]
Whil(cond, body) == [k |-> "Whil", cond |-> cond, body |-> body]
Rept(cond, body) == [k |-> "Rept", cond |-> cond, body |-> body]
Defn(name, frmls, body, ret_type) ==
    [k |-> "Defn", name |-> name, frmls |-> frmls, body |-> body, ret_type |-> ret_type,
     args |-> <<[n \in {frmls[i].name : i \in 1..Len(frmls)} |->
                    (CHOOSE f \in {frmls[i] : i \in 1..Len(frmls)} : f.name = n).type]>>]

\* ------------------------------------------------------------------ expressions
\* An expression check returns [err |-> message or NoErr, type |-> Type].
TypeOk(type) == [err |-> NoErr, type |-> type]
TypeErr(msg) == [err |-> msg, type |-> NONE_T]

Ltrl_chck(expn) ==
    IF expn.valu.t = "int" THEN TypeOk(INT_T)
    ELSE IF expn.valu.t = "string" THEN TypeOk(STR_T)
    ELSE IF expn.valu.t = "bool" THEN TypeOk(BOOL_T)
    ELSE TypeOk(NONE_T)

Lkup_chck(expn, st) ==
    IF has_info(st, expn.name) THEN TypeOk(get_info(st, expn.name))
    ELSE TypeErr("Unknown identifier " \o expn.name \o ".")

RECURSIVE Expn_chck(_, _, _)

\* The checks of two operands in order: the first error, or the two types.
Operands(e1, e2, dfs, st) ==
    Only({ IF l.err # NoErr THEN [err |-> l.err, left_ty |-> NONE_T, rght_ty |-> NONE_T]
           ELSE Only({ [err |-> r.err, left_ty |-> l.type, rght_ty |-> r.type]
                       : r \in {Expn_chck(e2, dfs, st)} })
           : l \in {Expn_chck(e1, dfs, st)} })

Plus_chck(expn, dfs, st) ==
    Only({ IF o.err # NoErr THEN TypeErr(o.err)
           ELSE IF is_int(o.left_ty) /\ is_int(o.rght_ty) THEN TypeOk(INT_T)
           ELSE IF is_str(o.left_ty) /\ is_str(o.rght_ty) THEN TypeOk(STR_T)
           ELSE TypeErr("Wrong operand types for plus.")
           : o \in {Operands(expn.left, expn.rght, dfs, st)} })

\* Mnus::chck, IDiv::chck and IMod::chck, which differ in the word of the
\* message
IntOp_chck(expn, dfs, st, word) ==
    Only({ IF o.err # NoErr THEN TypeErr(o.err)
           ELSE IF is_int(o.left_ty) /\ is_int(o.rght_ty) THEN TypeOk(INT_T)
           ELSE TypeErr("Wrong operand types for " \o word \o ".")
           : o \in {Operands(expn.left, expn.rght, dfs, st)} })

Mnus_chck(expn, dfs, st) == IntOp_chck(expn, dfs, st, "minus")
IDiv_chck(expn, dfs, st) == IntOp_chck(expn, dfs, st, "div")
IMod_chck(expn, dfs, st) == IntOp_chck(expn, dfs, st, "mod")

\* Tmes::chck without the (str, int) case
Tmes_chck_IntOnly(expn, dfs, st) == IntOp_chck(expn, dfs, st, "times")

Tmes_chck(expn, dfs, st) ==
    Only({ IF o.err # NoErr THEN TypeErr(o.err)
           ELSE IF is_int(o.left_ty) /\ is_int(o.rght_ty) THEN TypeOk(INT_T)
           ELSE IF is_str(o.left_ty) /\ is_int(o.rght_ty) THEN TypeOk(STR_T)
           ELSE TypeErr("Wrong operand types for times.")
           : o \in {Operands(expn.left, expn.rght, dfs, st)} })

Imus_chck(expn, dfs, st) ==
    Only({ IF e.err # NoErr THEN e
           ELSE IF is_int(e.type) THEN TypeOk(INT_T)
           ELSE TypeErr("Wrong operand types for inplace minus.")
           : e \in {Expn_chck(expn.expn, dfs, st)} })

\* Cmlt::chck, Cmle::chck, Cmeq::chck, Cmge::chck and Cmgt::chck, which differ
\* in the operator of the message
Cmp_chck(expn, dfs, st, op) ==
    Only({ IF o.err # NoErr THEN TypeErr(o.err)
           ELSE IF is_int(o.left_ty) /\ is_int(o.rght_ty) THEN TypeOk(BOOL_T)
           ELSE TypeErr("Wrong operand types for " \o op \o ".")
           : o \in {Operands(expn.lft, expn.rht, dfs, st)} })

Cmlt_chck(expn, dfs, st) == Cmp_chck(expn, dfs, st, "<")
Cmle_chck(expn, dfs, st) == Cmp_chck(expn, dfs, st, "<=")
Cmeq_chck(expn, dfs, st) == Cmp_chck(expn, dfs, st, "==")
Cmge_chck(expn, dfs, st) == Cmp_chck(expn, dfs, st, ">=")
Cmgt_chck(expn, dfs, st) == Cmp_chck(expn, dfs, st, ">")

\* Conj::chck and Disj::chck
BoolOp_chck(expn, dfs, st, word) ==
    Only({ IF o.err # NoErr THEN TypeErr(o.err)
           ELSE IF is_bool(o.left_ty) /\ is_bool(o.rght_ty) THEN TypeOk(BOOL_T)
           ELSE TypeErr("Wrong operand types for " \o word \o ".")
           : o \in {Operands(expn.lft, expn.rht, dfs, st)} })

Conj_chck(expn, dfs, st) == BoolOp_chck(expn, dfs, st, "and")
Disj_chck(expn, dfs, st) == BoolOp_chck(expn, dfs, st, "or")

Negt_chck(expn, dfs, st) ==
    Only({ IF e.err # NoErr THEN e
           ELSE IF is_bool(e.type) THEN TypeOk(BOOL_T)
           ELSE TypeErr("Wrong operand types for not.")
           : e \in {Expn_chck(expn.expn, dfs, st)} })

Inif_chck(expn, dfs, st) ==
    Only({ IF c.err # NoErr THEN c
           ELSE IF ~TypeEq(c.type, BOOL_T) THEN TypeErr("The condition should be bool")
           ELSE Only({ IF o.err # NoErr THEN TypeErr(o.err)
                       ELSE IF ~TypeEq(o.left_ty, o.rght_ty)
                       THEN TypeErr("The branches should have the same type")
                       ELSE TypeOk(o.left_ty)
                       : o \in {Operands(expn.if_br, expn.else_br, dfs, st)} })
           : c \in {Expn_chck(expn.cond, dfs, st)} })

Inpt_chck(expn, dfs, st) ==
    Only({ IF e.err # NoErr THEN e
           ELSE IF ~is_str(e.type) THEN TypeErr("Input requires a string.")
           ELSE TypeOk(STR_T)
           : e \in {Expn_chck(expn.expn, dfs, st)} })

\* IntC::chck without its test of the operand's type
IntC_chck_NoTypeTest(expn, dfs, st) ==
    Only({ IF e.err # NoErr THEN e ELSE TypeOk(INT_T)
           : e \in {Expn_chck(expn.expn, dfs, st)} })

IntC_chck(expn, dfs, st) ==
    Only({ IF e.err # NoErr THEN e
           ELSE IF ~is_str(e.type) \/ ~is_int(e.type)
           THEN TypeErr("Input requires a string or integer.")
           ELSE TypeOk(INT_T)
           : e \in {Expn_chck(expn.expn, dfs, st)} })

StrC_chck(expn, dfs, st) ==
    Only({ IF e.err # NoErr THEN e ELSE TypeOk(STR_T)
           : e \in {Expn_chck(expn.expn, dfs, st)} })

\* std::to_string of an int: its decimal digits
RECURSIVE to_string(_)
to_string(i) ==
    IF i < 0 THEN "-" \o to_string(0 - i)
    ELSE IF i < 10 THEN <<"0", "1", "2", "3", "4", "5", "6", "7", "8", "9">>[i + 1]
    ELSE to_string(i \div 10) \o to_string(i % 10)

\* Defn::arity and the type of the formal at (0-based) position i
arity(fn) == Len(fn.frmls)
get_frml(fn, i) == fn.frmls[i + 1]

NotInContext(name) == "fn " \o name \o " does not exsits in the context"
WrongArity(fn, args) ==
    "fn  needs " \o to_string(arity(fn)) \o " number of args but got "
        \o to_string(Len(args))

\* PCll::chck and FCll::chck, the loop over the arguments from (0-based)
\* position i on; but is the text between the two types in the message
RECURSIVE ArgsLoop(_, _, _, _, _, _)
RECURSIVE ArgsLoop_NoTypeTest(_, _, _, _, _, _)
\* the loop over the arguments without the comparison with the formal's type
ArgsLoop_NoTypeTest(fn, args, i, dfs, st, but) ==
    IF i >= arity(fn) THEN NoErr
    ELSE Only({ IF a.err # NoErr THEN a.err
                ELSE ArgsLoop_NoTypeTest(fn, args, i + 1, dfs, st, but)
                : a \in {Expn_chck(args[i + 1], dfs, st)} })

ArgsLoop(fn, args, i, dfs, st, but) ==
    IF i >= arity(fn) THEN NoErr
    ELSE Only({ IF a.err # NoErr THEN a.err
                ELSE IF ~TypeEq(get_frml(fn, i).type, a.type)
                THEN "The argument at " \o to_string(i) \o " should have type "
                         \o get_type_str(get_frml(fn, i).type) \o but
                         \o get_type_str(a.type)
                ELSE ArgsLoop(fn, args, i + 1, dfs, st, but)
                : a \in {Expn_chck(args[i + 1], dfs, st)} })

FCll_chck(expn, dfs, st) ==
    IF expn.name \notin DOMAIN dfs THEN TypeErr(NotInContext(expn.name))
    ELSE IF arity(dfs[expn.name]) # Len(expn.args)
    THEN TypeErr(WrongArity(dfs[expn.name], expn.args))
    ELSE Only({ IF aerr # NoErr THEN TypeErr(aerr)
                ELSE TypeOk(dfs[expn.name].ret_type)
                : aerr \in {ArgsLoop(dfs[expn.name], expn.args, 0, dfs, st, "but got ")} })

\* virtual dispatch of Expn::chck
Expn_chck(expn, dfs, st) ==
    CASE expn.k = "Ltrl" -> Ltrl_chck(expn)
      [] expn.k = "Lkup" -> Lkup_chck(expn, st)
      [] expn.k = "Plus" -> Plus_chck(expn, dfs, st)
      [] expn.k = "Mnus" -> Mnus_chck(expn, dfs, st)
      [] expn.k = "Tmes" -> Tmes_chck(expn, dfs, st)
      [] expn.k = "IDiv" -> IDiv_chck(expn, dfs, st)
      [] expn.k = "IMod" -> IMod_chck(expn, dfs, st)
      [] expn.k = "Imus" -> Imus_chck(expn, dfs, st)
      [] expn.k = "Cmlt" -> Cmlt_chck(expn, dfs, st)
      [] expn.k = "Cmle" -> Cmle_chck(expn, dfs, st)
      [] expn.k = "Cmeq" -> Cmeq_chck(expn, dfs, st)
      [] expn.k = "Cmge" -> Cmge_chck(expn, dfs, st)
      [] expn.k = "Cmgt" -> Cmgt_chck(expn, dfs, st)
      [] expn.k = "Conj" -> Conj_chck(expn, dfs, st)
      [] expn.k = "Disj" -> Disj_chck(expn, dfs, st)
      [] expn.k = "Negt" -> Negt_chck(expn, dfs, st)
      [] expn.k = "Inif" -> Inif_chck(expn, dfs, st)
      [] expn.k = "Inpt" -> Inpt_chck(expn, dfs, st)
      [] expn.k = "IntC" -> IntC_chck(expn, dfs, st)
      [] expn.k = "StrC" -> StrC_chck(expn, dfs, st)
      [] expn.k = "FCll" -> FCll_chck(expn, dfs, st)

\* ------------------------------------------------------------------ statements
\* What the dereference of a null els pointer does (undefined behaviour): the
\* process is killed, or the read goes through and the check of whatever is
\* found there yields some return behaviour.
NullDeref == {[k |-> "crash"]} \cup {[k |-> "garbage", rtns |-> r] : r \in RtnsSet}

RECURSIVE Stmt_chck(_, _, _, _, _)
RECURSIVE Blck_chck(_, _, _, _, _)

Pass_chck(s, ex, dfs, st) == Returned(Void, st)

\* Asgn::chck without the comparison of the two types
Asgn_chck_NoTypeTest(s, ex, dfs, st) ==
    IF ~has_info(st, s.name) THEN Thrown("Variable '" \o s.name \o "' never introduced.", st)
    ELSE Only({ IF e.err # NoErr THEN Thrown(e.err, st) ELSE Returned(Void, st)
                : e \in {Expn_chck(s.expn, dfs, st)} })

Asgn_chck(s, ex, dfs, st) ==
    IF ~has_info(st, s.name) THEN Thrown("Variable '" \o s.name \o "' never introduced.", st)
    ELSE Only({ IF e.err # NoErr THEN Thrown(e.err, st)
                ELSE IF ~TypeEq(get_info(st, s.name), e.type)
                THEN Thrown("Type mismatch. Expected expression of type "
                            \o type_name(get_info(st, s.name)) \o ".", st)
                ELSE Returned(Void, st)
                : e \in {Expn_chck(s.expn, dfs, st)} })

NotDefined(name) == "The variable " \o name \o " is not defined."

\* Pleq::chck with the operand rules of minus
Pleq_chck_IntOnly(s, ex, dfs, st) ==
    IF ~has_info(st, s.name) THEN Thrown(NotDefined(s.name), st)
    ELSE Only({ IF e.err # NoErr THEN Thrown(e.err, st)
                ELSE IF is_int(get_info(st, s.name)) /\ is_int(e.type)
                THEN Returned(Void, st)
                ELSE Thrown("Wrong operand types for plus eq.", st)
                : e \in {Expn_chck(s.expn, dfs, st)} })

Pleq_chck(s, ex, dfs, st) ==
    IF ~has_info(st, s.name) THEN Thrown(NotDefined(s.name), st)
    ELSE Only({ IF e.err # NoErr THEN Thrown(e.err, st)
                ELSE IF is_int(get_info(st, s.name)) /\ is_int(e.type)
                THEN Returned(Void, st)
                ELSE IF is_str(get_info(st, s.name)) /\ is_str(e.type)
                THEN Returned(Void, st)
                ELSE Thrown("Wrong operand types for plus eq.", st)
                : e \in {Expn_chck(s.expn, dfs, st)} })

Mneq_chck(s, ex, dfs, st) ==
    IF ~has_info(st, s.name) THEN Thrown(NotDefined(s.name), st)
    ELSE Only({ IF e.err # NoErr THEN Thrown(e.err, st)
                ELSE IF is_int(get_info(st, s.name)) /\ is_int(e.type)
                THEN Returned(Void, st)
                ELSE Thrown("Wrong operand types for minus eq.", st)
                : e \in {Expn_chck(s.expn, dfs, st)} })

\* Prnt::chck, the loop over the expressions from position i on
RECURSIVE PrntLoop(_, _, _, _)
PrntLoop(expns, i, dfs, st) ==
    IF i > Len(expns) THEN NoErr
    ELSE Only({ IF e.err # NoErr THEN e.err ELSE PrntLoop(expns, i + 1, dfs, st)
                : e \in {Expn_chck(expns[i], dfs, st)} })

Prnt_chck(s, ex, dfs, st) ==
    Only({ IF e # NoErr THEN Thrown(e, st) ELSE Returned(Void, st)
           : e \in {PrntLoop(s.expns, 1, dfs, st)} })

PCll_chck(s, ex, dfs, st) ==
    IF s.name \notin DOMAIN dfs THEN Thrown(NotInContext(s.name), st)
    ELSE IF arity(dfs[s.name]) # Len(s.args)
    THEN Thrown(WrongArity(dfs[s.name], s.args), st)
    ELSE Only({ IF aerr # NoErr THEN Thrown(aerr, st) ELSE Returned(Void, st)
                : aerr \in {ArgsLoop(dfs[s.name], s.args, 0, dfs, st, " but got ")} })

AlreadyIntroduced(name) == "Variable '" \o name \o "' already introduced."

\* Ntro::chck testing the name against every frame
Ntro_chck_AnyFrame(s, ex, dfs, st) ==
    IF has_info(st, s.name) THEN Thrown(AlreadyIntroduced(s.name), st)
    ELSE Only({ IF e.err # NoErr THEN Thrown(e.err, st)
                ELSE Returned(Void, add_locl(st, s.name, e.type))
                : e \in {Expn_chck(s.expn, dfs, st)} })

\* Ntro::chck binding the name to the type the declaration writes
Ntro_chck_DeclaredType(s, ex, dfs, st) ==
    IF is_redefining(st, s.name) THEN Thrown(AlreadyIntroduced(s.name), st)
    ELSE Only({ IF e.err # NoErr THEN Thrown(e.err, st)
                ELSE Returned(Void, add_locl(st, s.name, s.type))
                : e \in {Expn_chck(s.expn, dfs, st)} })

Ntro_chck(s, ex, dfs, st) ==
    IF is_redefining(st, s.name) THEN Thrown(AlreadyIntroduced(s.name), st)
    ELSE Only({ IF e.err # NoErr THEN Thrown(e.err, st)
                ELSE Returned(Void, add_locl(st, s.name, e.type))
                : e \in {Expn_chck(s.expn, dfs, st)} })

\* FRtn::chck yielding the type of the expression, whatever is expected
FRtn_chck_ActualType(s, ex, dfs, st) ==
    IF s.expn = NullPtr
    THEN Thrown("The return value does not exist but should return "
                    \o get_type_str(type_of(ex)), st)
    ELSE Only({ IF e.err # NoErr THEN Thrown(e.err, st)
                ELSE Returned(RtnsType(e.type), st)
                : e \in {Expn_chck(s.expn, dfs, st)} })

\* PRtn::chck without the test for Void
PRtn_chck_NoVoidTest(s, ex, dfs, st) ==
    IF ~is_None(type_of(ex))
    THEN Thrown("A procedure does not return a value.", st)
    ELSE Returned(RtnsType(NONE_T), st)

ReturnTypeShouldBe(expd_ty, actual_tp) ==
    "The return type should be " \o get_type_str(expd_ty)
        \o " but got " \o get_type_str(actual_tp)

FRtn_chck(s, ex, dfs, st) ==
    LET expd_ty == type_of(ex)
    IN  IF s.expn = NullPtr
        THEN Thrown("The return value does not exist but should return "
                    \o get_type_str(expd_ty), st)
        ELSE Only({ IF e.err # NoErr THEN Thrown(e.err, st)
                    ELSE IF TypeEq(expd_ty, e.type)
                    THEN Returned(RtnsType(expd_ty), st)
                    ELSE Thrown(ReturnTypeShouldBe(expd_ty, e.type), st)
                    : e \in {Expn_chck(s.expn, dfs, st)} })

PRtn_chck(s, ex, dfs, st) ==
    IF IsVoid(ex) THEN Thrown("Unexpected return statement.", st)
    ELSE IF ~is_None(type_of(ex))
         THEN Thrown("A procedure does not return a value.", st)
         ELSE Returned(RtnsType(NONE_T), st)

\* Blck::chck without the break at a statement that always returns
BlckStep_NoBreak(rtns, stmt_rtns) ==
    IF IsType(stmt_rtns)
    THEN IF ~IsVoid(rtns) /\ ~TypeEq(type_of(rtns), type_of(stmt_rtns))
         THEN [err |-> "Statement returns " \o get_type_str(type_of(stmt_rtns))
                         \o " but previous statement returns "
                         \o get_type_str(type_of(rtns)) \o ".",
               rtns |-> rtns, brk |-> FALSE]
         ELSE [err |-> NoErr, rtns |-> stmt_rtns, brk |-> FALSE]
    ELSE IF IsVoidOr(stmt_rtns) /\ IsVoid(rtns)
         THEN [err |-> NoErr, rtns |-> stmt_rtns, brk |-> FALSE]
         ELSE [err |-> NoErr, rtns |-> rtns, brk |-> FALSE]

\* Blck::chck, the body of its loop after the statement's check: the
\* accumulated behaviour, whether the loop breaks, and the error thrown.
BlckStep(rtns, stmt_rtns) ==
    IF IsType(stmt_rtns)
    THEN IF ~IsVoid(rtns) /\ ~TypeEq(type_of(rtns), type_of(stmt_rtns))
         THEN [err |-> "Statement returns " \o get_type_str(type_of(stmt_rtns))
                         \o " but previous statement returns "
                         \o get_type_str(type_of(rtns)) \o ".",
               rtns |-> rtns, brk |-> FALSE]
         ELSE [err |-> NoErr, rtns |-> stmt_rtns, brk |-> TRUE]
    ELSE IF IsVoidOr(stmt_rtns)
         THEN IF IsVoid(rtns)
              THEN [err |-> NoErr, rtns |-> stmt_rtns, brk |-> FALSE]
              ELSE IF ~TypeEq(type_of(rtns), type_of(stmt_rtns))
                   THEN [err |-> "Statement might return different types.",
                         rtns |-> rtns, brk |-> FALSE]
                   ELSE [err |-> NoErr, rtns |-> rtns, brk |-> FALSE]
         ELSE [err |-> NoErr, rtns |-> rtns, brk |-> FALSE]

\* the for loop of Blck::chck from statement i on, rtns accumulated so far
RECURSIVE BlckLoop(_, _, _, _, _, _, _)
BlckLoop(stmts, i, rtns, ex, dfs, st, ub) ==
    IF i > Len(stmts) THEN Returned(rtns, st)
    ELSE Only({ IF r.err # NoErr THEN r
                ELSE LET m == BlckStep(rtns, r.rtns)
                     IN  IF m.err # NoErr THEN Thrown(m.err, r.symt)
                         ELSE IF m.brk THEN Returned(m.rtns, r.symt)
                         ELSE BlckLoop(stmts, i + 1, m.rtns, ex, dfs, r.symt, ub)
                : r \in {Stmt_chck(stmts[i], ex, dfs, st, ub)} })

\* Blck::chck without the pop of the scope it marked
Blck_chck_KeepsScope(b, ex, dfs, st, ub) == BlckLoop(b.stmts, 1, Void, ex, dfs, mark(st), ub)

\* Blck::chck returning from inside the loop at a statement that always
\* returns, the scope left open
Blck_chck_ReturnInLoop(b, ex, dfs, st, ub) ==
    Only({ IF r.err # NoErr \/ IsType(r.rtns) THEN r
           ELSE Returned(r.rtns, pop_until_mark(r.symt))
           : r \in {BlckLoop(b.stmts, 1, Void, ex, dfs, mark(st), ub)} })

Blck_chck(b, ex, dfs, st, ub) ==
    Only({ IF r.err # NoErr THEN r
           ELSE Returned(r.rtns, pop_until_mark(r.symt))
           : r \in {BlckLoop(b.stmts, 1, Void, ex, dfs, mark(st), ub)} })

\* a loop whose body always returns taken to always return
LoopRtns_KeepsType(body_tp) ==
    IF IsVoid(body_tp) THEN Void ELSE body_tp

\* Whil::chck and Rept::chck, after the body's check
LoopRtns(body_tp) ==
    IF IsVoid(body_tp) THEN Void ELSE VoidOr(type_of(body_tp))

Whil_chck(s, ex, dfs, st, ub) ==
    Only({ IF c.err # NoErr THEN Thrown(c.err, st)
           ELSE IF ~TypeEq(c.type, BOOL_T)
           THEN Thrown("The condition for while should have type Bool but got "
                       \o get_type_str(c.type), st)
           ELSE Only({ IF b.err # NoErr THEN b
                       ELSE Returned(LoopRtns(b.rtns), b.symt)
                       : b \in {Blck_chck(s.body, ex, dfs, st, ub)} })
           : c \in {Expn_chck(s.cond, dfs, st)} })

Rept_chck(s, ex, dfs, st, ub) ==
    Only({ IF c.err # NoErr THEN Thrown(c.err, st)
           ELSE IF ~TypeEq(c.type, BOOL_T)
           THEN Thrown("The condition for repeat should have type Bool but got "
                       \o get_type_str(c.type), st)
           ELSE Only({ IF b.err # NoErr THEN b
                       ELSE Returned(LoopRtns(b.rtns), b.symt)
                       : b \in {Blck_chck(s.body, ex, dfs, st, ub)} })
           : c \in {Expn_chck(s.cond, dfs, st)} })

\* Cond::chck with a first loop that tests the condition of the first arm only
CondConds_FirstOnly(ifcds, i, dfs, st) ==
    IF i > 1 THEN NoErr
    ELSE Only({ IF c.err # NoErr THEN c.err
                ELSE IF ~TypeEq(c.type, BOOL_T)
                THEN "The condition at " \o to_string(i - 1)
                         \o " should have type Bool but got " \o get_type_str(c.type)
                ELSE NoErr
                : c \in {Expn_chck(ifcds[i].cond, dfs, st)} })

\* Cond::chck, the first loop: the conditions of ifcds[i..] (1-based here, the
\* message has the code's 0-based index) are of type bool
RECURSIVE CondConds(_, _, _, _)
CondConds(ifcds, i, dfs, st) ==
    IF i > Len(ifcds) THEN NoErr
    ELSE Only({ IF c.err # NoErr THEN c.err
                ELSE IF ~TypeEq(c.type, BOOL_T)
                THEN "The condition at " \o to_string(i - 1)
                         \o " should have type Bool but got " \o get_type_str(c.type)
                ELSE CondConds(ifcds, i + 1, dfs, st)
                : c \in {Expn_chck(ifcds[i].cond, dfs, st)} })

\* Cond::chck, the merge of one more arm's behaviour body_rt_tp into return_pt;
\* return_tp, rt_is_void and rt_has_void are those of the first arm, arm is
\* the arm's name in the message.
CondMerge(return_pt, return_tp, rt_is_void, rt_has_void, body_rt_tp, arm) ==
    LET body_has_void == has_void(body_rt_tp)
        body_is_void == IsVoid(body_rt_tp)
    IN  IF body_is_void
        THEN IF ~rt_is_void
             THEN [err |-> NoErr, rtns |-> VoidOr(type_of(return_pt))]
             ELSE [err |-> NoErr, rtns |-> return_pt]
        ELSE IF ~TypeEq(return_tp, type_of(body_rt_tp))
             THEN [err |-> "The return type at " \o arm \o " should have type "
                               \o get_type_str(return_tp) \o " but got "
                               \o get_type_str(type_of(body_rt_tp)),
                   rtns |-> return_pt]
             ELSE IF rt_has_void \/ body_has_void
                  THEN [err |-> NoErr, rtns |-> VoidOr(return_tp)]
                  ELSE [err |-> NoErr, rtns |-> return_pt]

\* The body Cond::chck checks for the arm at (0-based) position i of its
\* second loop.
ElifBody(ifcds, i) == ifcds[1].body

\* Cond::chck, the second loop from the arm at position i on (1-based here)
RECURSIVE CondLoop(_, _, _, _, _, _, _, _, _, _)
CondLoop(ifcds, i, return_pt, return_tp, rt_is_void, rt_has_void, ex, dfs, st, ub) ==
    IF i > Len(ifcds) THEN Returned(return_pt, st)
    ELSE Only({ IF b.err # NoErr THEN b
                ELSE LET m == CondMerge(return_pt, return_tp, rt_is_void,
                                        rt_has_void, b.rtns,
                                        to_string(i - 1) \o " if")
                     IN  IF m.err # NoErr THEN Thrown(m.err, b.symt)
                         ELSE CondLoop(ifcds, i + 1, m.rtns, return_tp, rt_is_void,
                                       rt_has_void, ex, dfs, b.symt, ub)
                : b \in {Blck_chck(ElifBody(ifcds, i), ex, dfs, st, ub)} })

\* Cond::chck, the check of els->body
ElseBody(els, ex, dfs, st, ub) ==
    IF els = NullPtr
    THEN IF ub.k = "crash" THEN Thrown(Crash, st) ELSE Returned(ub.rtns, st)
    ELSE Blck_chck(els.body, ex, dfs, st, ub)

\* Cond::chck from the check of the first arm's body on
CondArms(s, ex, dfs, st, ub) ==
    Only({ IF first.err # NoErr THEN first
           ELSE Only({ IF arms.err # NoErr THEN arms
                       ELSE Only({ IF e.err # NoErr THEN e
                                   ELSE LET m == CondMerge(arms.rtns, type_of(first.rtns),
                                                           IsVoid(first.rtns),
                                                           has_void(first.rtns), e.rtns, "else")
                                        IN  IF m.err # NoErr THEN Thrown(m.err, e.symt)
                                            ELSE Returned(m.rtns, e.symt)
                                   : e \in {ElseBody(s.els, ex, dfs, arms.symt, ub)} })
                       : arms \in {CondLoop(s.ifcds, 2, first.rtns, type_of(first.rtns),
                                            IsVoid(first.rtns), has_void(first.rtns),
                                            ex, dfs, first.symt, ub)} })
           : first \in {Blck_chck(s.ifcds[1].body, ex, dfs, st, ub)} })

Cond_chck(s, ex, dfs, st, ub) ==
    IF Len(s.ifcds) = 0 THEN Thrown("no if condition", st)
    ELSE Only({ IF cerr # NoErr THEN Thrown(cerr, st)
                ELSE CondArms(s, ex, dfs, st, ub)
                : cerr \in {CondConds(s.ifcds, 1, dfs, st)} })

\* virtual dispatch of Stmt::chck
Stmt_chck(s, ex, dfs, st, ub) ==
    CASE s.k = "Pass" -> Pass_chck(s, ex, dfs, st)
      [] s.k = "Asgn" -> Asgn_chck(s, ex, dfs, st)
      [] s.k = "Ntro" -> Ntro_chck(s, ex, dfs, st)
      [] s.k = "Pleq" -> Pleq_chck(s, ex, dfs, st)
      [] s.k = "Mneq" -> Mneq_chck(s, ex, dfs, st)
      [] s.k = "Prnt" -> Prnt_chck(s, ex, dfs, st)
      [] s.k = "PCll" -> PCll_chck(s, ex, dfs, st)
      [] s.k = "FRtn" -> FRtn_chck(s, ex, dfs, st)
      [] s.k = "PRtn" -> PRtn_chck(s, ex, dfs, st)
      [] s.k = "Cond" -> Cond_chck(s, ex, dfs, st, ub)
      [] s.k = "Whil" -> Whil_chck(s, ex, dfs, st, ub)
      [] s.k = "Rept" -> Rept_chck(s, ex, dfs, st, ub)
      [] OTHER -> Thrown("EXPN should not use Stmt check", st)

\* Defn::chck, after the body's check: the error thrown for the body's
\* behaviour, or NoErr
NeverReturns == "Definition body never returns."
MightNotReturn == "Definition body might not return."
ReturnsOther(tp, ret_type) ==
    "Definition body returns " \o get_type_str(tp)
        \o " but should return " \o get_type_str(ret_type)

\* Defn::chck without the test for VoidOr
DefnVerdict_NoVoidOrTest(rtns, ret_type) ==
    IF IsVoid(rtns) THEN NeverReturns
    ELSE IF ~TypeEq(type_of(rtns), ret_type) THEN ReturnsOther(type_of(rtns), ret_type)
    ELSE NoErr

DefnVerdict(rtns, ret_type) ==
    IF IsVoid(rtns) THEN NeverReturns
    ELSE IF IsVoidOr(rtns) THEN MightNotReturn
    ELSE IF ~TypeEq(type_of(rtns), ret_type) THEN ReturnsOther(type_of(rtns), ret_type)
    ELSE NoErr

Defn_chck(d, dfs, ub) ==
    Only({ IF r.err # NoErr THEN r
           ELSE [r EXCEPT !.err = DefnVerdict(r.rtns, d.ret_type)]
           : r \in {Blck_chck(d.body, RtnsType(d.ret_type), dfs, d.args, ub)} })

\* ------------------------------------------------------------------ the evaluator
\* Expn::eval returns [err, valu] and Stmt::exec returns [err, rv, ctxt]: err is
\* the message of the exception thrown, or NoErr; rv is the optional value
\* returned, NullOpt when there is none; ctxt is the context as the call
\* leaves it.  A context maps the names it has to their values.  rt is the
\* run's environment: fuel, the loop iterations and nested calls still allowed
\* to one statement, and cin, the word every read of the standard input yields.
\* Arithmetic is that of the integers: the values of the programs run here
\* are far from the limits of int.
NullOpt == [t |-> "nullopt", i |-> 0, s |-> "", b |-> FALSE]
EmptyCtxt == [n \in {} |-> None]
CtxtSet(ctxt, name, valu) ==
    [n \in (DOMAIN ctxt) \cup {name} |-> IF n = name THEN valu ELSE ctxt[n]]

\* std::get<T> on a value that holds another alternative
BadVariantAccess == "std::bad_variant_access"
\* the bound on the run was reached with the program still running
StillRunning == "still running"
NotDefinedAtRun(name) == "Run-time error: variable '" \o name \o "'not defined."
WrongOperand(word) == "Run-time error: wrong operand type for " \o word \o "."

EvalOk(valu) == [err |-> NoErr, valu |-> valu]
EvalErr(msg) == [err |-> msg, valu |-> None]
ExecOk(rv, ctxt) == [err |-> NoErr, rv |-> rv, ctxt |-> ctxt]
ExecErr(msg, ctxt) == [err |-> msg, rv |-> NullOpt, ctxt |-> ctxt]

\* to_string(Valu)
Valu_to_string(valu) ==
    IF valu.t = "int" THEN to_string(valu.i)
    ELSE IF valu.t = "string" THEN valu.s
    ELSE IF valu.t = "bool" THEN (IF valu.b THEN "True" ELSE "False")
    ELSE IF valu.t = "none" THEN "None"
    ELSE "<unknown>"

\* int division and remainder of C++: the quotient is truncated towards zero
Quot(ln, rn) ==
    IF (ln >= 0) = (rn > 0) THEN (IF ln >= 0 THEN ln ELSE 0 - ln) \div (IF rn > 0 THEN rn ELSE 0 - rn)
    ELSE 0 - ((IF ln >= 0 THEN ln ELSE 0 - ln) \div (IF rn > 0 THEN rn ELSE 0 - rn))
Rem(ln, rn) == ln - rn * Quot(ln, rn)

\* Tmes::eval on a string and an int
RECURSIVE Repeated(_, _)
Repeated(ln, rn) == IF rn <= 0 THEN "" ELSE ln \o Repeated(ln, rn - 1)

RECURSIVE Eval(_, _, _, _)
RECURSIVE Blck_exec(_, _, _, _)

\* the evaluations of two operands in order: the first error, or the two values
EvalTwo(e1, e2, dfs, ctxt, rt) ==
    Only({ IF lv.err # NoErr THEN [err |-> lv.err, lv |-> None, rv |-> None]
           ELSE Only({ [err |-> rv.err, lv |-> lv.valu, rv |-> rv.valu]
                       : rv \in {Eval(e2, dfs, ctxt, rt)} })
           : lv \in {Eval(e1, dfs, ctxt, rt)} })

\* Plus::eval, Mnus::eval, Tmes::eval, IDiv::eval and IMod::eval
Arith_eval(expn, dfs, ctxt, rt) ==
    Only({ IF o.err # NoErr THEN EvalErr(o.err)
           ELSE IF o.lv.t = "int" /\ o.rv.t = "int"
           THEN CASE expn.k = "Plus" -> EvalOk(IntV(o.lv.i + o.rv.i))
                  [] expn.k = "Mnus" -> EvalOk(IntV(o.lv.i - o.rv.i))
                  [] expn.k = "Tmes" -> EvalOk(IntV(o.lv.i * o.rv.i))
                  [] expn.k = "IDiv" ->
                        IF o.rv.i = 0 THEN EvalErr("Run-time error: division by 0.")
                        ELSE EvalOk(IntV(Quot(o.lv.i, o.rv.i)))
                  [] expn.k = "IMod" ->
                        IF o.rv.i = 0 THEN EvalErr("Run-time error: division by 0.")
                        ELSE EvalOk(IntV(Rem(o.lv.i, o.rv.i)))
           ELSE IF expn.k = "Plus" /\ o.lv.t = "string" /\ o.rv.t = "string"
           THEN EvalOk(StrV(o.lv.s \o o.rv.s))
           ELSE IF expn.k = "Tmes" /\ o.lv.t = "string" /\ o.rv.t = "int"
           THEN (IF o.rv.i < 0 THEN EvalErr(StillRunning)
                 ELSE EvalOk(StrV(Repeated(o.lv.s, o.rv.i))))
           ELSE EvalErr(WrongOperand(
                    CASE expn.k = "Plus" -> "plus" [] expn.k = "Mnus" -> "minus"
                      [] expn.k = "Tmes" -> "times" [] expn.k = "IDiv" -> "quotient"
                      [] expn.k = "IMod" -> "remainder"))
           : o \in {EvalTwo(expn.left, expn.rght, dfs, ctxt, rt)} })

\* Cmlt::eval .. Cmge::eval: std::get<int> of both operands, then the comparison
Cmp_eval(expn, dfs, ctxt, rt) ==
    Only({ IF o.err # NoErr THEN EvalErr(o.err)
           ELSE IF o.lv.t # "int" \/ o.rv.t # "int" THEN EvalErr(BadVariantAccess)
           ELSE EvalOk(BoolV(CASE expn.k = "Cmlt" -> o.lv.i < o.rv.i
                               [] expn.k = "Cmgt" -> o.lv.i > o.rv.i
                               [] expn.k = "Cmeq" -> o.lv.i = o.rv.i
                               [] expn.k = "Cmle" -> o.lv.i <= o.rv.i
                               [] expn.k = "Cmge" -> o.lv.i >= o.rv.i))
           : o \in {EvalTwo(expn.lft, expn.rht, dfs, ctxt, rt)} })

\* std::get<bool> of the value of an expression: [err, valu] with valu a BOOLEAN
GetBool(expn, dfs, ctxt, rt) ==
    Only({ IF e.err # NoErr THEN [err |-> e.err, valu |-> FALSE]
           ELSE IF e.valu.t # "bool" THEN [err |-> BadVariantAccess, valu |-> FALSE]
           ELSE [err |-> NoErr, valu |-> e.valu.b]
           : e \in {Eval(expn, dfs, ctxt, rt)} })

\* Conj::eval and Disj::eval: the right operand is evaluated only when the
\* left one does not decide
Logic_eval(expn, dfs, ctxt, rt) ==
    Only({ IF l.err # NoErr THEN EvalErr(l.err)
           ELSE IF l.valu # (expn.k = "Conj") THEN EvalOk(BoolV(l.valu))
           ELSE Only({ IF r.err # NoErr THEN EvalErr(r.err) ELSE EvalOk(BoolV(r.valu))
                       : r \in {GetBool(expn.rht, dfs, ctxt, rt)} })
           : l \in {GetBool(expn.lft, dfs, ctxt, rt)} })

Inif_eval(expn, dfs, ctxt, rt) ==
    Only({ IF c.err # NoErr THEN EvalErr(c.err)
           ELSE IF c.valu THEN Eval(expn.if_br, dfs, ctxt, rt)
           ELSE Eval(expn.else_br, dfs, ctxt, rt)
           : c \in {GetBool(expn.cond, dfs, ctxt, rt)} })

\* std::stoi on the strings of the programs run here: the decimal digits of a
\* number up to 99, or a string that starts with no digit
Stoi(str) ==
    IF \E i \in 0..99 : to_string(i) = str
    THEN EvalOk(IntV(CHOOSE i \in 0..99 : to_string(i) = str))
    ELSE EvalErr("Run-time error: \"" \o str \o "\"cannot be converted to an int.")

\* Negt::eval, Imus::eval, Inpt::eval, IntC::eval and StrC::eval
Unary_eval(expn, dfs, ctxt, rt) ==
    Only({ IF e.err # NoErr THEN e
           ELSE CASE expn.k = "Negt" ->
                       IF e.valu.t # "bool" THEN EvalErr(BadVariantAccess)
                       ELSE EvalOk(BoolV(~e.valu.b))
                  [] expn.k = "Imus" ->
                       IF e.valu.t # "int" THEN EvalErr(BadVariantAccess)
                       ELSE EvalOk(IntV(0 - e.valu.i))
                  [] expn.k = "Inpt" ->
                       IF e.valu.t = "string" THEN EvalOk(StrV(rt.cin))
                       ELSE EvalErr("Run-time error: prompt is not a string.")
                  [] expn.k = "IntC" ->
                       IF e.valu.t = "int" THEN EvalOk(e.valu)
                       ELSE IF e.valu.t = "string" THEN Stoi(e.valu.s)
                       ELSE IF e.valu.t = "bool"
                       THEN EvalOk(IntV(IF e.valu.b THEN 1 ELSE 0))
                       ELSE EvalErr("Run-time error: cannot convert to an int.")
                  [] expn.k = "StrC" -> EvalOk(StrV(Valu_to_string(e.valu)))
           : e \in {Eval(expn.expn, dfs, ctxt, rt)} })

\* Defn::exec, the loop over the formals from position i on: each argument is
\* evaluated in the caller's context and bound in the new one
RECURSIVE ArgsBind(_, _, _, _, _, _, _)
ArgsBind(fn, vec, i, dfs, ctxt, new_ctxt, rt) ==
    IF i >= arity(fn) THEN [err |-> NoErr, ctxt |-> new_ctxt]
    ELSE Only({ IF a.err # NoErr THEN [err |-> a.err, ctxt |-> new_ctxt]
                ELSE ArgsBind(fn, vec, i + 1, dfs, ctxt,
                              CtxtSet(new_ctxt, get_frml(fn, i).name, a.valu), rt)
                : a \in {Eval(vec[i + 1], dfs, ctxt, rt)} })

\* Defn::exec: the body runs in a copy of the caller's context
Defn_exec(fn, dfs, ctxt, vec, rt) ==
    IF arity(fn) # Len(vec) THEN EvalErr("Wrong number of arguments")
    ELSE IF rt.fuel = 0 THEN EvalErr(StillRunning)
    ELSE Only({ IF b.err # NoErr THEN EvalErr(b.err)
                ELSE Only({ IF r.err # NoErr THEN EvalErr(r.err)
                            ELSE EvalOk(IF r.rv.t = NullOpt.t THEN None ELSE r.rv)
                            : r \in {Blck_exec(fn.body, dfs, b.ctxt,
                                               [rt EXCEPT !.fuel = @ - 1])} })
                : b \in {ArgsBind(fn, vec, 0, dfs, ctxt, ctxt, rt)} })

\* FCll::eval
FCll_eval(expn, dfs, ctxt, rt) ==
    IF expn.name \notin DOMAIN dfs THEN EvalErr("Function not found")
    ELSE Defn_exec(dfs[expn.name], dfs, ctxt, expn.args, rt)

\* Lkup::eval
Lkup_eval(expn, ctxt) ==
    IF expn.name \in DOMAIN ctxt THEN EvalOk(ctxt[expn.name])
    ELSE EvalErr(NotDefinedAtRun(expn.name))

\* virtual dispatch of Expn::eval
Eval(expn, dfs, ctxt, rt) ==
    CASE expn.k = "Ltrl" -> EvalOk(expn.valu)
      [] expn.k = "Lkup" -> Lkup_eval(expn, ctxt)
      [] expn.k \in {"Plus", "Mnus", "Tmes", "IDiv", "IMod"} -> Arith_eval(expn, dfs, ctxt, rt)
      [] expn.k \in {"Cmlt", "Cmgt", "Cmeq", "Cmle", "Cmge"} -> Cmp_eval(expn, dfs, ctxt, rt)
      [] expn.k \in {"Conj", "Disj"} -> Logic_eval(expn, dfs, ctxt, rt)
      [] expn.k \in {"Negt", "Imus", "Inpt", "IntC", "StrC"} -> Unary_eval(expn, dfs, ctxt, rt)
      [] expn.k = "Inif" -> Inif_eval(expn, dfs, ctxt, rt)
      [] expn.k = "FCll" -> FCll_eval(expn, dfs, ctxt, rt)

RECURSIVE Stmt_exec(_, _, _, _)

\* Asgn::exec and Ntro::exec
Asgn_exec(s, dfs, ctxt, rt) ==
    Only({ IF e.err # NoErr THEN ExecErr(e.err, ctxt)
           ELSE ExecOk(NullOpt, CtxtSet(ctxt, s.name, e.valu))
           : e \in {Eval(s.expn, dfs, ctxt, rt)} })

\* Pleq::exec and Mneq::exec: ctxt[name] makes the entry of a name the context
\* lacks, with the first alternative of Valu, the int 0; on two bools the
\* operator is that of int
Compound_exec(s, dfs, ctxt, rt) ==
    LET made == IF s.name \in DOMAIN ctxt THEN ctxt ELSE CtxtSet(ctxt, s.name, IntV(0))
        val == made[s.name]
        num(x) == IF x.t = "bool" THEN (IF x.b THEN 1 ELSE 0) ELSE x.i
    IN  IF val.t = "none" THEN ExecOk(NullOpt, made)
        ELSE IF val.t = "string" /\ s.k = "Mneq" THEN ExecErr("Cannot subtract strings", made)
        ELSE Only({ IF e.err # NoErr THEN ExecErr(e.err, made)
                    ELSE IF e.valu.t # val.t THEN ExecErr(BadVariantAccess, made)
                    ELSE IF val.t = "string"
                    THEN ExecOk(NullOpt, CtxtSet(made, s.name, StrV(val.s \o e.valu.s)))
                    ELSE IF s.k = "Pleq"
                    THEN ExecOk(NullOpt, CtxtSet(made, s.name, IntV(num(val) + num(e.valu))))
                    ELSE ExecOk(NullOpt, CtxtSet(made, s.name, IntV(num(val) - num(e.valu))))
                    : e \in {Eval(s.expn, dfs, made, rt)} })

\* Prnt::exec, the expressions from position i on
RECURSIVE Prnt_exec(_, _, _, _, _)
Prnt_exec(expns, i, dfs, ctxt, rt) ==
    IF i > Len(expns) THEN ExecOk(NullOpt, ctxt)
    ELSE Only({ IF e.err # NoErr THEN ExecErr(e.err, ctxt)
                ELSE Prnt_exec(expns, i + 1, dfs, ctxt, rt)
                : e \in {Eval(expns[i], dfs, ctxt, rt)} })

\* Cond::exec, the arms from position i on, then the else
RECURSIVE Cond_exec(_, _, _, _, _)
Cond_exec(s, i, dfs, ctxt, rt) ==
    IF i > Len(s.ifcds)
    THEN (IF s.els # NullPtr THEN Blck_exec(s.els.body, dfs, ctxt, rt)
          ELSE ExecOk(NullOpt, ctxt))
    ELSE Only({ IF c.err # NoErr THEN ExecErr(c.err, ctxt)
                ELSE IF c.valu THEN Blck_exec(s.ifcds[i].body, dfs, ctxt, rt)
                ELSE Cond_exec(s, i + 1, dfs, ctxt, rt)
                : c \in {GetBool(s.ifcds[i].cond, dfs, ctxt, rt)} })

\* Whil::exec and Rept::exec: what the body returns is dropped; test says
\* whether the iteration starts with the test of the condition
RECURSIVE Loop_exec(_, _, _, _, _)
Loop_exec(s, test, dfs, ctxt, rt) ==
    IF test
    THEN Only({ IF c.err # NoErr THEN ExecErr(c.err, ctxt)
                ELSE IF c.valu # (s.k = "Whil") THEN ExecOk(NullOpt, ctxt)
                ELSE Loop_exec(s, FALSE, dfs, ctxt, rt)
                : c \in {GetBool(s.cond, dfs, ctxt, rt)} })
    ELSE IF rt.fuel = 0 THEN ExecErr(StillRunning, ctxt)
    ELSE Only({ IF b.err # NoErr THEN ExecErr(b.err, b.ctxt)
                ELSE Loop_exec(s, TRUE, dfs, b.ctxt, [rt EXCEPT !.fuel = @ - 1])
                : b \in {Blck_exec(s.body, dfs, ctxt, rt)} })

\* FRtn::exec
FRtn_exec(s, dfs, ctxt, rt) ==
    IF s.expn = NullPtr THEN ExecErr(Crash, ctxt)
    ELSE Only({ IF e.err # NoErr THEN ExecErr(e.err, ctxt) ELSE ExecOk(e.valu, ctxt)
                : e \in {Eval(s.expn, dfs, ctxt, rt)} })

\* PCll::exec with the callee's body run on the caller's context itself
PCll_exec_ByReference(s, dfs, ctxt, rt) ==
    IF s.name \notin DOMAIN dfs THEN ExecErr("Function not found", ctxt)
    ELSE Only({ IF r.err # NoErr THEN ExecErr(r.err, ctxt) ELSE ExecOk(NullOpt, r.ctxt)
                : r \in {Blck_exec(dfs[s.name].body, dfs, ctxt, rt)} })

\* PCll::exec
PCll_exec(s, dfs, ctxt, rt) ==
    IF s.name \notin DOMAIN dfs THEN ExecErr("Function not found", ctxt)
    ELSE Only({ IF r.err # NoErr THEN ExecErr(r.err, ctxt) ELSE ExecOk(NullOpt, ctxt)
                : r \in {Defn_exec(dfs[s.name], dfs, ctxt, s.args, rt)} })

\* virtual dispatch of Stmt::exec
Stmt_exec(s, dfs, ctxt, rt) ==
    CASE s.k = "Pass" -> ExecOk(NullOpt, ctxt)
      [] s.k = "PRtn" -> ExecOk(NullOpt, ctxt)
      [] s.k = "FRtn" -> FRtn_exec(s, dfs, ctxt, rt)
      [] s.k \in {"Asgn", "Ntro"} -> Asgn_exec(s, dfs, ctxt, rt)
      [] s.k \in {"Pleq", "Mneq"} -> Compound_exec(s, dfs, ctxt, rt)
      [] s.k = "Prnt" -> Prnt_exec(s.expns, 1, dfs, ctxt, rt)
      [] s.k = "PCll" -> PCll_exec(s, dfs, ctxt, rt)
      [] s.k = "Cond" -> Cond_exec(s, 1, dfs, ctxt, rt)
      [] s.k = "Whil" -> Loop_exec(s, TRUE, dfs, ctxt, rt)
      [] s.k = "Rept" -> Loop_exec(s, FALSE, dfs, ctxt, rt)
      [] s.k = "Blck" -> Blck_exec(s, dfs, ctxt, rt)

\* Blck::exec, the statements from position i on: the first value returned
\* ends the block
RECURSIVE BlckExecLoop(_, _, _, _, _)
BlckExecLoop(stmts, i, dfs, ctxt, rt) ==
    IF i > Len(stmts) THEN ExecOk(NullOpt, ctxt)
    ELSE Only({ IF r.err # NoErr \/ r.rv.t # NullOpt.t THEN r
                ELSE BlckExecLoop(stmts, i + 1, dfs, r.ctxt, rt)
                : r \in {Stmt_exec(stmts[i], dfs, ctxt, rt)} })

Blck_exec(blck, dfs, ctxt, rt) ==
    IF blck = NullPtr THEN ExecErr(Crash, ctxt)
    ELSE BlckExecLoop(blck.stmts, 1, dfs, ctxt, rt)

\* Prgm::run has not been called
NoRun == ExecErr("not run", EmptyCtxt)
\* words on the standard input
Words == {"a", "7"}

\* Prgm::run
Prgm_run(dfs, mn, rt) ==
    IF mn # NullPtr THEN Blck_exec(mn, dfs, EmptyCtxt, rt) ELSE ExecOk(NullOpt, EmptyCtxt)

\* ------------------------------------------------------------------ inputs
RECURSIVE SeqsOf(_, _)
\* the sequences over S of length n
SeqsOf(S, n) ==
    IF n = 0 THEN {<<>>}
    ELSE {Append(q, x) : q \in SeqsOf(S, n - 1), x \in S}

SeqsUpTo(S, n) == UNION {SeqsOf(S, i) : i \in 0..n}

LtInt == Ltrl(IntV(1))
LtStr == Ltrl(StrV("a"))
LtBool == Ltrl(BoolV(TRUE))
LtFalse == Ltrl(BoolV(FALSE))
LtNone == Ltrl(None)

\* loops whose body always returns, never returns, declares
LoopStmts ==
    {Whil(LtBool, Blck(<<FRtn(LtInt)>>)),
     Rept(LtBool, Blck(<<FRtn(LtNone)>>)),
     Whil(LtBool, Blck(<<Ntro("x", STR_T, LtStr)>>))}

\* statements of the bodies of arms and loops
ArmStmts ==
    {FRtn(LtInt), FRtn(LtNone), Ntro("x", STR_T, LtStr), FRtn(Lkup("x")),
     Whil(LtBool, Blck(<<FRtn(LtInt)>>)), Rept(LtBool, Blck(<<FRtn(LtNone)>>))}

ArmBodies ==
    {Blck(<<>>)} \cup {Blck(<<s>>) : s \in ArmStmts}
      \cup {Blck(<<Ntro("x", STR_T, LtStr), FRtn(Lkup("x"))>>),
            Blck(<<Ntro("x", STR_T, LtStr), Ntro("x", INT_T, LtInt)>>)}

ElseArms == {NullPtr} \cup {Else(b) : b \in ArmBodies}

\* conditionals of 1..MaxArms arms with conditions of type bool
Conds ==
    {Cond(ifcds, els) :
        ifcds \in {[i \in 1..Len(bs) |-> Ifcd(LtBool, bs[i])] :
                      bs \in SeqsUpTo(ArmBodies, MaxArms) \ {<<>>}},
        els \in ElseArms}

\* conditionals and loops whose conditions are of any type
CondExpns == {LtBool, LtInt, LtStr, LtNone, Lkup("x"), Lkup("y")}

TypedConds ==
    {Cond(<<>>, NullPtr)}
      \cup {Cond(<<Ifcd(c1, Blck(<<Pass>>)), Ifcd(c2, Blck(<<FRtn(LtInt)>>))>>,
                 Else(Blck(<<>>))) : c1 \in CondExpns, c2 \in CondExpns}

Loops ==
    {Whil(c, b) : c \in CondExpns, b \in ArmBodies}
      \cup {Rept(c, b) : c \in CondExpns, b \in ArmBodies}

LeafStmts ==
    {Pass, PRtn, FRtn(NullPtr), FRtn(LtInt), FRtn(LtNone), FRtn(Lkup("x")),
     Ntro("x", STR_T, LtStr), Ntro("x", STR_T, LtInt), Ntro("y", INT_T, Lkup("x")),
     Ntro("x", BOOL_T, Lkup("x")), Ntro("y", INT_T, Lkup("z")), Ntro("y", BOOL_T, Lkup("y")),
     Asgn("x", LtInt), Asgn("y", Lkup("x"))}

\* statements of the blocks under check
BlckStmts ==
    {Pass, FRtn(LtInt), FRtn(LtNone), FRtn(Lkup("x")),
     Ntro("x", STR_T, LtStr), Ntro("x", INT_T, LtInt), Asgn("x", LtInt),
     Cond(<<Ifcd(LtBool, Blck(<<FRtn(LtInt)>>))>>, Else(Blck(<<Pass>>))),
     Cond(<<Ifcd(LtBool, Blck(<<Ntro("x", STR_T, LtStr)>>)),
            Ifcd(LtBool, Blck(<<Ntro("x", INT_T, LtInt), FRtn(Lkup("x"))>>))>>,
          Else(Blck(<<FRtn(Lkup("x"))>>)))}
      \cup LoopStmts

Blcks == {Blck(ss) : ss \in SeqsUpTo(BlckStmts, MaxStmts)}

Expds == {Void, RtnsType(INT_T), RtnsType(NONE_T)}

SymTs == {NewSymT, <<[n \in {"x"} |-> INT_T]>>}

\* a table of two frames: x of the outer frame, y of the innermost
SymT2 == <<[n \in {"x"} |-> INT_T], [n \in {"y"} |-> STR_T]>>

Frmls == <<[name |-> "x", type |-> INT_T]>>

\* definitions whose returns, if any, are in loops
LoopDefns ==
    {Defn("f", Frmls, Blck(ss), t) :
        ss \in SeqsUpTo({Pass, Rept(LtBool, Blck(<<PRtn>>))} \cup LoopStmts, MaxStmts),
        t \in {INT_T, NONE_T}}

NoDefs == [n \in {} |-> NullPtr]

\* a table with a name of each type
SymT4 == <<[n \in {"i", "s", "b", "n"} |->
              CASE n = "i" -> INT_T [] n = "s" -> STR_T
                [] n = "b" -> BOOL_T [] n = "n" -> NONE_T]>>

\* operands: a literal of each type
Opnds == {LtInt, LtStr, LtBool, LtNone}
\* names: one of each type in SymT4, and z, which no table has
Names == {"i", "s", "b", "n", "z"}

\* returns, assignments, compound assignments and prints over names and
\* operands of every type
TypedStmts ==
    {PRtn, FRtn(NullPtr), Prnt(<<>>), Prnt(<<LtInt, Lkup("s")>>), Prnt(<<LtInt, Lkup("z")>>)}
      \cup {FRtn(e) : e \in Opnds \cup {Lkup(v) : v \in Names}
                              \cup {Plus(LtInt, Lkup("i")), Plus(LtInt, LtStr)}}
      \cup {Asgn(v, e) : v \in Names, e \in Opnds \cup {Lkup("z")}}
      \cup {Pleq(v, e) : v \in Names, e \in Opnds \cup {Lkup("z")}}
      \cup {Mneq(v, e) : v \in Names, e \in Opnds \cup {Lkup("z")}}

TypedExpds == {Void} \cup {RtnsType(t) : t \in Type}

\* expressions: every operator over operands of every type, and over operands
\* that are themselves operators or that throw
BinOps == {"Plus", "Mnus", "Tmes", "IDiv", "IMod"}
CmpOps == {"Cmlt", "Cmgt", "Cmeq", "Cmle", "Cmge", "Conj", "Disj"}
UnOps == {"Imus", "Negt", "Inpt", "IntC", "StrC"}
Nested == {Plus(LtInt, LtInt), Plus(LtStr, LtStr), Cmlt(LtInt, LtInt), Lkup("z"),
           Lkup("i"), Lkup("s")}

Expns ==
    {[k |-> op, left |-> l, rght |-> r] : op \in BinOps, l \in Opnds, r \in Opnds}
      \cup {[k |-> op, lft |-> l, rht |-> r] : op \in CmpOps, l \in Opnds, r \in Opnds}
      \cup {[k |-> op, expn |-> e] : op \in UnOps, e \in Opnds \cup Nested}
      \cup {Inif(a, c, b) : a \in Opnds, c \in Opnds, b \in Opnds}
      \cup {Plus(l, r) : l \in Nested, r \in Nested}
      \cup {Conj(Cmlt(LtInt, LtInt), r) : r \in Nested}
      \cup {Inif(a, Cmlt(LtInt, LtInt), Lkup("s")) : a \in Nested}

\* the definitions that the calls under check find in Defs: f of one formal,
\* h of two, p of none
CallDefs ==
    [n \in {"f", "h", "p"} |->
        CASE n = "f" -> Defn("f", Frmls, Blck(<<FRtn(Lkup("x"))>>), INT_T)
          [] n = "h" -> Defn("h", <<[name |-> "x", type |-> INT_T],
                                    [name |-> "y", type |-> STR_T]>>,
                             Blck(<<FRtn(Lkup("y"))>>), STR_T)
          [] n = "p" -> Defn("p", <<>>, Blck(<<PRtn>>), NONE_T)]

ArgLists == SeqsUpTo(Opnds, MaxArgs) \cup {<<Lkup("z")>>, <<LtInt, Lkup("z")>>,
                                          <<Lkup("i"), Lkup("s")>>}
Callees == {"f", "h", "p", "q"}

Calls ==
    {PCll(c, a) : c \in Callees, a \in ArgLists}
      \cup {FCll(c, a) : c \in Callees, a \in ArgLists}
      \cup {FCll("f", <<FCll("f", <<LtInt>>)>>), FCll("f", <<FCll("h", <<LtInt, LtStr>>)>>),
            Plus(FCll("f", <<LtInt>>), LtInt), PCll("h", <<FCll("f", <<LtInt>>), LtStr>>)}
NoOut == Returned(Void, NewSymT)

\* ------------------------------------------------------------------ the check of one node
InitChck ==
    /\ \/ stmt \in Conds /\ expd \in Expds /\ symt \in SymTs
       \/ /\ stmt \in LeafStmts \/ stmt \in TypedConds \/ stmt \in Loops \/ stmt \in Blcks
          /\ expd \in Expds
          /\ symt \in SymTs \cup {SymT2}
       \/ stmt \in LoopDefns /\ expd = RtnsType(stmt.ret_type) /\ symt = stmt.args
       \/ stmt \in TypedStmts /\ expd \in TypedExpds /\ symt = SymT4
       \/ stmt \in Expns /\ expd = Void /\ symt = SymT4
       \/ stmt \in Calls /\ expd = Void /\ symt = SymT4
    /\ pc = "ready"
    /\ out = NoOut
    /\ ran = NoRun
    /\ err = NoErr
    /\ defs = IF stmt \in Calls THEN CallDefs ELSE NoDefs
    /\ main = NullPtr
    /\ main_symt = NewSymT
    /\ todo = {}

\* the call stmt->chck(expd, defs, symt) has returned or thrown r; out.symt is
\* the table as the call leaves it, symt the table as it was handed over
Checked(r) ==
    /\ out' = r
    /\ err' = r.err
    /\ pc' = IF r.err = NoErr THEN "done" ELSE "error"
    /\ UNCHANGED <<stmt, expd, symt, defs, main, main_symt, todo, ran>>

ChckPass == pc = "ready" /\ stmt.k = "Pass" /\ Checked(Pass_chck(stmt, expd, defs, symt))
ChckAsgn == pc = "ready" /\ stmt.k = "Asgn" /\ Checked(Asgn_chck(stmt, expd, defs, symt))
ChckNtro == pc = "ready" /\ stmt.k = "Ntro" /\ Checked(Ntro_chck(stmt, expd, defs, symt))
ChckFRtn == pc = "ready" /\ stmt.k = "FRtn" /\ Checked(FRtn_chck(stmt, expd, defs, symt))
ChckPRtn == pc = "ready" /\ stmt.k = "PRtn" /\ Checked(PRtn_chck(stmt, expd, defs, symt))
ChckPleq == pc = "ready" /\ stmt.k = "Pleq" /\ Checked(Pleq_chck(stmt, expd, defs, symt))
ChckMneq == pc = "ready" /\ stmt.k = "Mneq" /\ Checked(Mneq_chck(stmt, expd, defs, symt))
ChckPrnt == pc = "ready" /\ stmt.k = "Prnt" /\ Checked(Prnt_chck(stmt, expd, defs, symt))
ChckPCll == pc = "ready" /\ stmt.k = "PCll" /\ Checked(PCll_chck(stmt, expd, defs, symt))

StmtKinds ==
    {"Pass", "Asgn", "Ntro", "Pleq", "Mneq", "Prnt", "PCll", "FRtn", "PRtn",
     "Cond", "Whil", "Rept", "Blck", "Defn"}

\* the call expn->chck(defs, symt) of an expression: out is the type returned
\* or the error thrown
ChckExpn ==
    /\ pc = "ready" /\ stmt.k \notin StmtKinds
    /\ \E e \in {Expn_chck(stmt, defs, symt)} :
          /\ out' = e
          /\ err' = e.err
          /\ pc' = IF e.err = NoErr THEN "done" ELSE "error"
    /\ UNCHANGED <<stmt, expd, symt, defs, main, main_symt, todo, ran>>

ChckCond ==
    /\ pc = "ready" /\ stmt.k = "Cond"
    /\ \E ub \in NullDeref : Checked(Cond_chck(stmt, expd, defs, symt, ub))
ChckWhil ==
    /\ pc = "ready" /\ stmt.k = "Whil"
    /\ \E ub \in NullDeref : Checked(Whil_chck(stmt, expd, defs, symt, ub))
ChckRept ==
    /\ pc = "ready" /\ stmt.k = "Rept"
    /\ \E ub \in NullDeref : Checked(Rept_chck(stmt, expd, defs, symt, ub))
ChckBlck ==
    /\ pc = "ready" /\ stmt.k = "Blck"
    /\ \E ub \in NullDeref : Checked(Blck_chck(stmt, expd, defs, symt, ub))

ChckDefnNode ==
    /\ pc = "ready" /\ stmt.k = "Defn"
    /\ \E ub \in NullDeref : Checked(Defn_chck(stmt, defs, ub))

NextChck ==
    \/ ChckPass \/ ChckAsgn \/ ChckNtro \/ ChckFRtn \/ ChckPRtn
    \/ ChckPleq \/ ChckMneq \/ ChckPrnt \/ ChckPCll \/ ChckExpn
    \/ ChckCond \/ ChckWhil \/ ChckRept \/ ChckBlck \/ ChckDefnNode

SpecChck == InitChck /\ [][NextChck]_vars

\* ------------------------------------------------------------------ Prgm::chck
\* statements of the bodies of the definitions under check
DefStmts ==
    {Pass, PRtn, FRtn(LtInt), FRtn(LtNone), FRtn(Lkup("x")),
     Ntro("x", STR_T, LtStr)}
      \cup LoopStmts

DefArmBodies == {Blck(<<Pass>>), Blck(<<FRtn(LtInt)>>), Blck(<<FRtn(LtNone)>>)}

DefConds ==
    {Cond(ifcds, els) :
        ifcds \in {[i \in 1..Len(bs) |-> Ifcd(LtBool, bs[i])] :
                      bs \in SeqsUpTo(DefArmBodies, MaxArms) \ {<<>>}},
        els \in {NullPtr} \cup {Else(b) : b \in DefArmBodies}}

DefBodies ==
    {Blck(ss) : ss \in SeqsUpTo(DefStmts, MaxStmts)}
      \cup {Blck(<<c>>) : c \in DefConds}
      \cup {Blck(<<c, FRtn(LtInt)>>) : c \in DefConds}
      \cup {Blck(<<Cond(<<Ifcd(LtBool, Blck(<<c>>))>>, Else(Blck(<<FRtn(LtInt)>>)))>>) :
               c \in DefConds}

FDefns == {Defn("f", Frmls, b, t) : b \in DefBodies, t \in {INT_T, NONE_T}}

GDefns ==
    {Defn("g", <<>>, Blck(<<FRtn(LtStr)>>), STR_T),
     Defn("g", <<>>, Blck(<<Whil(LtBool, Blck(<<PRtn>>))>>), NONE_T)}

DefsSet ==
    {NoDefs} \cup {[n \in {"f"} |-> f] : f \in FDefns}
      \cup {[n \in {"f", "g"} |-> IF n = "f" THEN f ELSE g] : f \in FDefns, g \in GDefns}

\* a name declared again, with another type, in the block of an arm
Shadowing ==
    Blck(<<Ntro("i", INT_T, LtInt),
           Cond(<<Ifcd(LtBool, Blck(<<Ntro("i", STR_T, LtStr)>>))>>, Else(Blck(<<Pass>>))),
           Ntro("j", INT_T, Plus(Lkup("i"), LtInt))>>)

\* an elif arm that reads a name no declaration introduces
ElifReads ==
    Blck(<<Cond(<<Ifcd(LtFalse, Blck(<<Pass>>)),
                  Ifcd(LtBool, Blck(<<Ntro("j", INT_T, Lkup("z"))>>))>>,
                Else(Blck(<<Pass>>)))>>)

\* scripts whose statements read and write variables
RunMains ==
    {Shadowing, ElifReads,
     Blck(<<Ntro("i", INT_T, LtInt),
            Whil(Cmlt(Lkup("i"), Ltrl(IntV(3))), Blck(<<Pleq("i", LtInt)>>)),
            Prnt(<<Lkup("i"), StrC(Lkup("i"))>>)>>),
     Blck(<<Ntro("s", STR_T, Inpt(LtStr)), Pleq("s", Tmes(Lkup("s"), Ltrl(IntV(2)))),
            Rept(LtBool, Blck(<<Ntro("i", INT_T, IDiv(Ltrl(IntV(7)), Ltrl(IntV(2))))>>))>>),
     Blck(<<Ntro("b", BOOL_T, Negt(Conj(LtBool, Cmeq(LtInt, Imus(LtInt))))),
            Cond(<<Ifcd(Lkup("b"), Blck(<<Ntro("i", INT_T, Inif(LtInt, Lkup("b"), LtInt))>>))>>,
                 Else(Blck(<<Pass>>)))>>),
     Blck(<<Ntro("i", INT_T, LtInt), Mneq("i", IMod(Lkup("i"), Ltrl(IntV(0))))>>)}

\* scripts with statements after one that throws
FailingMains ==
    {Blck(<<Asgn("z", LtInt), Ntro("w", INT_T, LtInt)>>),
     Blck(<<Ntro("w", INT_T, LtInt), Asgn("w", LtStr), Ntro("v", STR_T, LtStr)>>),
     Blck(<<Ntro("w", INT_T, LtInt), Ntro("w", STR_T, LtStr), Asgn("z", LtInt)>>)}

Mains ==
    {Blck(<<>>), Blck(<<Pass>>), Blck(<<PRtn>>), Blck(<<FRtn(LtInt)>>),
     Blck(<<FRtn(LtNone)>>), Blck(<<Whil(LtBool, Blck(<<FRtn(LtNone)>>))>>),
     Blck(<<Ntro("x", INT_T, LtInt), Asgn("x", LtInt)>>)}
      \cup RunMains \cup FailingMains

\* a procedure that reads, after its return, a name no declaration introduces
ReturnThenRead == Defn("p", <<>>, Blck(<<PRtn, Prnt(<<Lkup("z")>>)>>), NONE_T)

\* scripts that call the definitions of CallDefs
CallMains ==
    {Blck(<<PCll("p", <<>>)>>),
     Blck(<<Ntro("i", INT_T, FCll("f", <<LtInt>>)),
            Prnt(<<FCll("h", <<Lkup("i"), LtStr>>)>>)>>)}

\* definitions that call themselves, each other, and definitions checked
\* later: ev and od, and w, whose return does not have its declared type
RecDefs ==
    [n \in {"ev", "od", "w"} |->
        CASE n = "ev" ->
               Defn("ev", Frmls,
                    Blck(<<Cond(<<Ifcd(Cmeq(Lkup("x"), Ltrl(IntV(0))),
                                       Blck(<<FRtn(LtBool)>>))>>,
                                Else(Blck(<<FRtn(FCll("od", <<Mnus(Lkup("x"), LtInt)>>))>>)))>>),
                    BOOL_T)
          [] n = "od" ->
               Defn("od", Frmls,
                    Blck(<<Cond(<<Ifcd(Cmeq(Lkup("x"), Ltrl(IntV(0))),
                                       Blck(<<FRtn(LtFalse)>>))>>,
                                Else(Blck(<<FRtn(FCll("ev", <<Mnus(Lkup("x"), LtInt)>>))>>)))>>),
                    BOOL_T)
          [] n = "w" ->
               Defn("w", Frmls, Blck(<<FRtn(FCll("w", <<FCll("od", <<Lkup("x")>>)>>))>>), INT_T)]

RecDefsSet ==
    {[n \in ns |-> RecDefs[n]] : ns \in {{"ev", "od"}, {"ev", "od", "w"}, {"ev"}}}

RecMains ==
    {Blck(<<Ntro("b", BOOL_T, FCll("ev", <<e>>))>>) : e \in {Ltrl(IntV(0)), LtInt, Ltrl(IntV(3))}}

\* definitions whose body starts with a loop that returns a value: r with a
\* repeat, rw with a while
LoopRtnDefs ==
    [n \in {"r", "rw"} |->
        IF n = "r"
        THEN Defn("r", <<>>, Blck(<<Rept(LtBool, Blck(<<FRtn(LtInt)>>)),
                                    FRtn(Ltrl(IntV(2)))>>), INT_T)
        ELSE Defn("rw", <<>>, Blck(<<Whil(LtBool, Blck(<<FRtn(LtInt)>>)),
                                     FRtn(Ltrl(IntV(2)))>>), INT_T)]

\* scripts that declare i with the value of a call without arguments
LoopMains == {Blck(<<Ntro("i", INT_T, FCll(n, <<>>))>>) : n \in {"r", "rw"}}

\* definitions that declare and assign names: s writes its formal x and a
\* name i of its own, q declares k and returns no value
WriteDefs ==
    [n \in {"s", "q"} |->
        IF n = "s"
        THEN Defn("s", Frmls,
                  Blck(<<Ntro("i", INT_T, Ltrl(IntV(5))),
                         Asgn("x", Plus(Lkup("x"), Lkup("i"))), FRtn(Lkup("x"))>>), INT_T)
        ELSE Defn("q", <<>>, Blck(<<Ntro("k", INT_T, LtInt), PRtn>>), NONE_T)]

\* scripts that call them with names of their own
WriteMains ==
    {Blck(<<Ntro("i", INT_T, LtInt), Ntro("j", INT_T, FCll("s", <<Lkup("i")>>)),
            PCll("q", <<>>), Ntro("n", NONE_T, FCll("q", <<>>))>>),
     Blck(<<Ntro("x", INT_T, LtInt), PCll("s", <<Plus(Lkup("x"), Lkup("x"))>>),
            Prnt(<<Lkup("x")>>)>>)}

Init ==
    /\ \/ defs \in DefsSet /\ main \in {NullPtr, Blck(<<FRtn(LtNone)>>)}
       \/ defs \in {NoDefs} \cup {[n \in {"g"} |-> g] : g \in GDefns} /\ main \in Mains
       \/ defs \in {CallDefs, [CallDefs EXCEPT !["p"] = ReturnThenRead]} /\ main \in CallMains
       \/ defs \in RecDefsSet /\ main \in RecMains
       \/ defs = LoopRtnDefs /\ main \in LoopMains
       \/ defs = WriteDefs /\ main \in WriteMains
    /\ main_symt = NewSymT
    /\ todo = DOMAIN defs
    /\ pc = "defs"
    /\ err = NoErr
    /\ out = NoOut
    /\ ran = NoRun
    /\ stmt = NullPtr
    /\ expd = Void
    /\ symt = NewSymT

\* Prgm::chck with one parameter table shared by all the definitions
ChckDefn_SharedTable ==
    /\ pc = "defs"
    /\ \E name \in todo : \E ub \in NullDeref :
         \E r \in {Defn_chck(defs[name], defs, ub)} :
            /\ out' = r
            /\ err' = r.err
            /\ defs' = [n \in DOMAIN defs |-> [defs[n] EXCEPT !.args = r.symt]]
            /\ stmt' = [k |-> "Defn", name |-> name]
            /\ symt' = defs[name].args
            /\ expd' = RtnsType(defs[name].ret_type)
            /\ IF r.err # NoErr
               THEN pc' = "error" /\ todo' = todo
               ELSE pc' = "defs" /\ todo' = todo \ {name}
    /\ UNCHANGED <<main, main_symt, ran>>

\* Prgm::chck with a loop that goes on to the next definition after a throw
ChckDefn_GoesOn ==
    /\ pc = "defs"
    /\ \E name \in todo : \E ub \in NullDeref :
         \E r \in {Defn_chck(defs[name], defs, ub)} :
            /\ out' = r
            /\ err' = r.err
            /\ defs' = [defs EXCEPT ![name].args = r.symt]
            /\ stmt' = [k |-> "Defn", name |-> name]
            /\ symt' = defs[name].args
            /\ expd' = RtnsType(defs[name].ret_type)
            /\ pc' = "defs" /\ todo' = todo \ {name}
    /\ UNCHANGED <<main, main_symt, ran>>

\* Prgm::chck, one iteration of the loop over defs: dfpr.second->chck(defs)
ChckDefn ==
    /\ pc = "defs"
    /\ \E name \in todo : \E ub \in NullDeref :
         \E r \in {Defn_chck(defs[name], defs, ub)} :
            /\ out' = r
            /\ err' = r.err
            /\ defs' = [defs EXCEPT ![name].args = r.symt]
            /\ stmt' = [k |-> "Defn", name |-> name]
            /\ symt' = defs[name].args
            /\ expd' = RtnsType(defs[name].ret_type)
            /\ IF r.err # NoErr
               THEN pc' = "error" /\ todo' = todo
               ELSE pc' = "defs" /\ todo' = todo \ {name}
    /\ UNCHANGED <<main, main_symt, ran>>

\* Prgm::chck after the loop: the check of main. The DwislpyError for a result
\* other than Void is constructed and dropped, not thrown.
ChckMain ==
    /\ pc = "defs"
    /\ todo = {}
    /\ IF main = NullPtr
       THEN pc' = "done" /\ UNCHANGED <<out, err, main_symt, stmt, expd>>
       ELSE \E ub \in NullDeref : \E r \in {Blck_chck(main, Void, defs, main_symt, ub)} :
               /\ out' = r
               /\ err' = r.err
               /\ main_symt' = r.symt
               /\ stmt' = [k |-> "main"]
               /\ expd' = Void
               /\ pc' = IF r.err # NoErr THEN "error" ELSE "done"
    /\ UNCHANGED <<defs, main, todo, symt, ran>>

\* Prgm::run on a program Prgm::chck has accepted; every read of the standard
\* input yields the word cin
Run ==
    /\ pc = "done"
    /\ \E cin \in Words :
         ran' = Prgm_run(defs, main, [fuel |-> MaxSteps, cin |-> cin])
    /\ pc' = "ran"
    /\ UNCHANGED <<defs, main, main_symt, todo, err, stmt, expd, symt, out>>

Next == ChckDefn \/ ChckMain \/ Run

Spec == Init /\ [][Next]_vars

\* ------------------------------------------------------------------ claims
\* no conditional without else in the node: the dereference does not happen
NoNull == [k |-> "crash"]

\* In Spec: the last step was the check of the definition stmt.name.
DefnChecked == stmt.k = "Defn" /\ pc \in {"defs", "error"}
Accepted == stmt.name \notin todo
\* Defn::chck got a return behaviour from the body's check (the body did not throw)
BodyReturned ==
    err \in {NoErr, NeverReturns, MightNotReturn}
            \cup {ReturnsOther(t, type_of(expd)) : t \in Type}

\* C1: Defn::chck accepts a definition if and only if the check of its body
\* against the declared return type yields exactly Type T with T the declared
\* type; a body of behaviour Void is rejected with "Definition body never
\* returns." and a body of behaviour VoidOr T with "Definition body might not
\* return.".
C1_DefnAcceptsExactlyType ==
    DefnChecked =>
        LET d == defs[stmt.name]
        IN  /\ BodyReturned =>
                 \E ub \in NullDeref :
                    Blck_chck(d.body, RtnsType(d.ret_type), defs, symt, ub)
                        = [out EXCEPT !.err = NoErr]
            /\ Accepted <=> /\ BodyReturned
                            /\ IsType(out.rtns)
                            /\ TypeEq(out.rtns.type, d.ret_type)
            /\ (BodyReturned /\ IsVoid(out.rtns)) => (pc = "error" /\ err = NeverReturns)
            /\ (BodyReturned /\ IsVoidOr(out.rtns)) => (pc = "error" /\ err = MightNotReturn)

\* C1 witness: a definition whose body always returns the declared type has
\* been accepted.
C1_Witness ==
    /\ DefnChecked /\ Accepted /\ pc = "defs"
    /\ out.rtns = RtnsType(defs[stmt.name].ret_type)

\* In SpecChck: the node under check is a conditional and its check has ended.
CondChecked == pc # "ready" /\ stmt.k = "Cond" /\ Len(stmt.ifcds) >= 1
\* the behaviour of the body of the i-th arm, and of the else arm, checked alone
ArmRtns(i) == Blck_chck(stmt.ifcds[i].body, expd, defs, symt, NoNull)
ElseRtns == Blck_chck(stmt.els.body, expd, defs, symt, NoNull)
CondsBool ==
    \A i \in 1..Len(stmt.ifcds) : Expn_chck(stmt.ifcds[i].cond, defs, symt) = TypeOk(BOOL_T)
ArmsOk == \A i \in 1..Len(stmt.ifcds) : ArmRtns(i).err = NoErr

\* C2: a conditional with no else arm is checked as though it had an empty
\* arm of behaviour Void: the check completes normally, with Void when no arm
\* returns and VoidOr T when some arm returns T, never Type T.
C2_NoElseIsVoidArm ==
    (CondChecked /\ stmt.els = NullPtr /\ CondsBool /\ ArmsOk) =>
        /\ pc = "done"
        /\ ~IsType(out.rtns)
        /\ (\A i \in 1..Len(stmt.ifcds) : IsVoid(ArmRtns(i).rtns)) => out.rtns = Void
        /\ \A i \in 1..Len(stmt.ifcds) :
              ~IsVoid(ArmRtns(i).rtns) => out.rtns = VoidOr(type_of(ArmRtns(i).rtns))

\* C3: the conditional's behaviour is Type T exactly when every arm is Type T,
\* Void exactly when every arm is Void, and VoidOr T otherwise, T the type of
\* the arms that return; a Void arm with a returning arm is no error, whichever
\* comes first. Stated for the conditionals of two arms, if and else.
C3_BranchMerge ==
    (CondChecked /\ Len(stmt.ifcds) = 1 /\ stmt.els # NullPtr /\ CondsBool /\ ArmsOk
        /\ ElseRtns.err = NoErr) =>
        LET a == ArmRtns(1).rtns
            b == ElseRtns.rtns
        IN  /\ pc = "done"
            /\ (IsVoid(a) /\ IsVoid(b)) => out.rtns = Void
            /\ (IsType(a) /\ IsType(b)) => out.rtns = a
            /\ (IsVoid(a) /\ ~IsVoid(b)) => out.rtns = VoidOr(type_of(b))
            /\ (~IsVoid(a) /\ IsVoid(b)) => out.rtns = VoidOr(type_of(a))
            /\ (IsVoidOr(a) /\ ~IsVoid(b)) => out.rtns = a
            /\ (~IsVoid(a) /\ IsVoidOr(b)) => out.rtns = VoidOr(type_of(a))

\* C4: the body of every elif arm is itself checked: an error inside the body
\* of an elif arm makes the check of the conditional fail.
C4_ElifBodyChecked ==
    (CondChecked /\ Len(stmt.ifcds) >= 2 /\ stmt.els # NullPtr /\ CondsBool
        /\ ArmRtns(1).err = NoErr
        /\ \E i \in 2..Len(stmt.ifcds) : ArmRtns(i).err # NoErr) =>
        pc = "error"

\* Syntactic paths of a body, for definition totality.
RECURSIVE LoopFreeBlck(_)
RECURSIVE BlckReturns(_, _)
RECURSIVE BlckFalls(_, _)

LoopFreeStmt(s) ==
    CASE s.k \in {"Whil", "Rept"} -> FALSE
      [] s.k = "Cond" -> /\ \A i \in 1..Len(s.ifcds) : LoopFreeBlck(s.ifcds[i].body)
                         /\ s.els # NullPtr => LoopFreeBlck(s.els.body)
      [] OTHER -> TRUE
LoopFreeBlck(b) == \A i \in 1..Len(b.stmts) : LoopFreeStmt(b.stmts[i])

\* every path through s ends in the return of a literal of type T
StmtReturns(s, T) ==
    \/ s.k = "FRtn" /\ s.expn.k = "Ltrl" /\ Ltrl_chck(s.expn).type = T
    \/ /\ s.k = "Cond" /\ s.els # NullPtr /\ Len(s.ifcds) >= 1
       /\ \A i \in 1..Len(s.ifcds) : BlckReturns(s.ifcds[i].body, T)
       /\ BlckReturns(s.els.body, T)
BlckReturns(b, T) ==
    /\ Len(b.stmts) >= 1
    /\ StmtReturns(b.stmts[Len(b.stmts)], T)
    /\ \A j \in 1..(Len(b.stmts) - 1) : b.stmts[j].k = "Pass"

\* some path through s reaches its end without a return, and the other paths
\* return a literal of type T
StmtFalls(s, T) ==
    \/ s.k = "Pass"
    \/ /\ s.k = "Cond" /\ s.els # NullPtr /\ Len(s.ifcds) >= 1
       /\ \A i \in 1..Len(s.ifcds) :
             BlckFalls(s.ifcds[i].body, T) \/ BlckReturns(s.ifcds[i].body, T)
       /\ BlckFalls(s.els.body, T) \/ BlckReturns(s.els.body, T)
       /\ \/ \E i \in 1..Len(s.ifcds) : BlckFalls(s.ifcds[i].body, T)
          \/ BlckFalls(s.els.body, T)
BlckFalls(b, T) == \A i \in 1..Len(b.stmts) : StmtFalls(b.stmts[i], T)

\* C5: definition totality: a loop-free function in which every path ends in a
\* return of the declared type is accepted, and a function in which some path
\* through an if, elif or else arm reaches the end of the body without a
\* return is rejected.
C5_DefinitionTotality ==
    (DefnChecked /\ LoopFreeBlck(defs[stmt.name].body)) =>
        LET d == defs[stmt.name]
        IN  /\ BlckReturns(d.body, d.ret_type) => Accepted
            /\ (BlckFalls(d.body, d.ret_type)
                  /\ \E i \in 1..Len(d.body.stmts) : d.body.stmts[i].k = "Cond")
                 => (~Accepted /\ pc = "error")

\* In SpecChck: the node under check is a block and its check has ended.
BlckChecked == pc # "ready" /\ stmt.k = "Blck"

\* The results of the checks of the statements of ss in order, the first in
\* table st, up to and including the first that throws or always returns.
RECURSIVE StmtResults(_, _)
StmtResults(ss, st) ==
    IF ss = <<>> THEN <<>>
    ELSE Only({ IF r.err # NoErr \/ IsType(r.rtns) THEN <<r>>
                ELSE <<r>> \o StmtResults(Tail(ss), r.symt)
                : r \in {Stmt_chck(Head(ss), expd, defs, st, NoNull)} })

\* C6: sequential merge: Blck::chck folds its statements from Void; a Void
\* statement leaves the accumulated behaviour, a VoidOr T statement turns Void
\* into VoidOr T and is an error against VoidOr T' with T' other than T, and the
\* first statement of behaviour Type T makes the result Type T, whatever the
\* statements after it.
C6_SequentialMerge ==
    BlckChecked =>
        LET rs == StmtResults(stmt.stmts, mark(symt))
            n == Len(rs)
            voidors == {i \in 1..n : IsVoidOr(rs[i].rtns)}
            agree == \A i \in voidors : \A j \in 1..n :
                        ~IsVoid(rs[j].rtns) => TypeEq(rs[i].rtns.type, type_of(rs[j].rtns))
        IN  IF \E i \in 1..n : rs[i].err # NoErr
            THEN pc = "error" /\ err = rs[n].err
            ELSE /\ (\A i \in 1..n : IsVoid(rs[i].rtns)) => (pc = "done" /\ out.rtns = Void)
                 /\ (n >= 1 /\ IsType(rs[n].rtns) /\ agree)
                      => (pc = "done" /\ out.rtns = rs[n].rtns)
                 /\ (voidors # {} /\ agree /\ \A i \in 1..n : ~IsType(rs[i].rtns))
                      => (pc = "done" /\ \A i \in voidors : out.rtns = rs[i].rtns)
                 /\ (\E i \in voidors : \E j \in voidors :
                        ~TypeEq(rs[i].rtns.type, rs[j].rtns.type))
                      => pc = "error"

\* C6 witness: the first statement of a block of two always returns, the
\* second would throw, and the block's behaviour is that of the first.
C6_Witness ==
    /\ BlckChecked /\ pc = "done" /\ Len(stmt.stmts) = 2
    /\ Len(StmtResults(stmt.stmts, mark(symt))) = 1
    /\ IsType(out.rtns)
    /\ Stmt_chck(stmt.stmts[2], expd, defs, mark(symt), NoNull).err # NoErr

\* In SpecChck: the node under check is a loop and its check has ended.
LoopChecked == pc # "ready" /\ stmt.k \in {"Whil", "Rept"}
IsRtn(s) == s.k \in {"FRtn", "PRtn"}
\* a loop whose body has a return statement
LoopWithReturn(s) ==
    s.k \in {"Whil", "Rept"} /\ \E i \in 1..Len(s.body.stmts) : IsRtn(s.body.stmts[i])

\* C7: loop merge: the behaviour of a while or repeat loop is Void when the
\* body's is Void and VoidOr T when the body's is Type T or VoidOr T, never
\* Type T; a definition whose only returns are in loops is rejected with
\* "Definition body might not return.".
C7_LoopMerge ==
    /\ (LoopChecked /\ Expn_chck(stmt.cond, defs, symt) = TypeOk(BOOL_T)) =>
          \A b \in {Blck_chck(stmt.body, expd, defs, symt, NoNull)} :
             b.err = NoErr =>
                /\ pc = "done"
                /\ ~IsType(out.rtns)
                /\ IsVoid(b.rtns) => out.rtns = Void
                /\ ~IsVoid(b.rtns) => out.rtns = VoidOr(type_of(b.rtns))
    /\ (pc # "ready" /\ stmt.k = "Defn" /\ BodyReturned
          /\ \A i \in 1..Len(stmt.body.stmts) :
                stmt.body.stmts[i].k \in {"Pass", "Whil", "Rept"}) =>
          /\ pc = "error"
          /\ (\E i \in 1..Len(stmt.body.stmts) : LoopWithReturn(stmt.body.stmts[i]))
                => err = MightNotReturn

\* C7 witness: a definition whose body is a repeat loop that always returns
\* has been rejected.
C7_Witness ==
    /\ pc = "error" /\ stmt.k = "Defn" /\ err = MightNotReturn
    /\ Len(stmt.body.stmts) = 1
    /\ stmt.body.stmts[1].k = "Rept"
    /\ IsRtn(stmt.body.stmts[1].body.stmts[1])

RECURSIVE BlckHasReturn(_)
StmtHasReturn(s) ==
    CASE IsRtn(s) -> TRUE
      [] s.k \in {"Whil", "Rept"} -> BlckHasReturn(s.body)
      [] s.k = "Cond" -> \/ \E i \in 1..Len(s.ifcds) : BlckHasReturn(s.ifcds[i].body)
                         \/ s.els # NullPtr /\ BlckHasReturn(s.els.body)
      [] OTHER -> FALSE
BlckHasReturn(b) == \E i \in 1..Len(b.stmts) : StmtHasReturn(b.stmts[i])

\* C8: Prgm::chck fails whenever the behaviour computed for the script's
\* block is other than Void: a program whose script has a return statement is
\* never reported as checked.
C8_ScriptShouldNotReturn ==
    (pc = "done" /\ main # NullPtr) =>
        /\ IsVoid(out.rtns)
        /\ ~BlckHasReturn(main)

\* C9: scope restoration: whenever the check of a block, conditional or loop
\* returns normally, also after stopping at a statement that always returns,
\* the table's frames and bindings are those from before the check.
C9_ScopeRestored ==
    (pc = "done" /\ stmt.k \in {"Blck", "Cond", "Whil", "Rept"}) => out.symt = symt

\* C9 witness: a block that declares a name and then always returns has been
\* checked, and the table is as before.
C9_Witness ==
    /\ BlckChecked /\ pc = "done" /\ IsType(out.rtns)
    /\ Len(stmt.stmts) = 2 /\ stmt.stmts[1].k = "Ntro"
    /\ out.symt = symt

Innermost(st) == st[Len(st)]

Ended == pc \in {"done", "error"}
\* the check of an operand of the node under check, in the table handed over
Opnd(e) == Expn_chck(e, defs, symt)

\* C13: value return: FRtn::chck succeeds only when the type of the returned
\* expression equals the expected return type (type_of(expd)) exactly, and
\* then yields Type <expected>; a mismatch is an error naming both types.
C13_ValueReturn ==
    (Ended /\ stmt.k = "FRtn") =>
        IF stmt.expn = NullPtr THEN pc = "error"
        ELSE /\ pc = "done" <=>
                   (Opnd(stmt.expn).err = NoErr /\ Opnd(stmt.expn).type = type_of(expd))
             /\ pc = "done" => (out.rtns = RtnsType(type_of(expd)) /\ out.symt = symt)
             /\ (Opnd(stmt.expn).err = NoErr /\ Opnd(stmt.expn).type # type_of(expd))
                   => err = ReturnTypeShouldBe(type_of(expd), Opnd(stmt.expn).type)

\* C13 witness: a return of a name of type str has been checked where str is
\* expected.
C13_Witness ==
    /\ pc = "done" /\ stmt.k = "FRtn" /\ stmt.expn # NullPtr /\ stmt.expn.k = "Lkup"
    /\ expd = RtnsType(STR_T) /\ out.rtns = RtnsType(STR_T)

\* C14: bare return: PRtn::chck succeeds, with Type None, only when the
\* expected return type is None; it throws when no return is expected (Void)
\* and when the expected type is int, str or bool.
C14_BareReturn ==
    (Ended /\ stmt.k = "PRtn") =>
        /\ pc = "done" <=> expd = RtnsType(NONE_T)
        /\ pc = "done" => out.rtns = RtnsType(NONE_T)
        /\ expd = Void => (pc = "error" /\ err = "Unexpected return statement.")
        /\ expd \in {RtnsType(INT_T), RtnsType(STR_T), RtnsType(BOOL_T)}
              => (pc = "error" /\ err = "A procedure does not return a value.")

\* C14 witness: a bare return has been checked where None is expected.
C14_Witness ==
    pc = "done" /\ stmt.k = "PRtn" /\ expd = RtnsType(NONE_T) /\ out.rtns = RtnsType(NONE_T)

\* C16: assignment: Asgn::chck throws when the name is in no frame and when
\* the type of the expression differs from the name's type; otherwise it
\* returns Void and leaves the table as it was.
C16_Assignment ==
    (Ended /\ stmt.k = "Asgn") =>
        /\ ~has_info(symt, stmt.name) => pc = "error"
        /\ (has_info(symt, stmt.name) /\ Opnd(stmt.expn).err = NoErr
              /\ Opnd(stmt.expn).type # get_info(symt, stmt.name)) => pc = "error"
        /\ (has_info(symt, stmt.name) /\ Opnd(stmt.expn).err = NoErr
              /\ Opnd(stmt.expn).type = get_info(symt, stmt.name))
              => (pc = "done" /\ out.rtns = Void /\ out.symt = symt)

\* C16 witness: an assignment of a str to a name of type str has been checked.
C16_Witness ==
    /\ pc = "done" /\ stmt.k = "Asgn" /\ out.rtns = Void
    /\ get_info(symt, stmt.name) = STR_T

\* the name of a compound assignment is declared, with type t, and the operand
\* has type u
Compound(t, u) ==
    /\ has_info(symt, stmt.name) /\ get_info(symt, stmt.name) = t
    /\ Opnd(stmt.expn).err = NoErr /\ Opnd(stmt.expn).type = u

\* C17: compound assignment: += is accepted exactly when the name is declared
\* and (name's type, operand's type) is (int, int) or (str, str); -= exactly
\* when it is (int, int); an accepted one returns Void.
C17_CompoundAssignment ==
    /\ (Ended /\ stmt.k = "Pleq") =>
          /\ pc = "done" <=> (Compound(INT_T, INT_T) \/ Compound(STR_T, STR_T))
          /\ pc = "done" => (out.rtns = Void /\ out.symt = symt)
    /\ (Ended /\ stmt.k = "Mneq") =>
          /\ pc = "done" <=> Compound(INT_T, INT_T)
          /\ pc = "done" => (out.rtns = Void /\ out.symt = symt)

\* C17 witness: s += "a" has been checked with s of type str.
C17_Witness ==
    pc = "done" /\ stmt.k = "Pleq" /\ Compound(STR_T, STR_T) /\ out.rtns = Void

\* the arguments of the call under check are as many as the callee's formals
\* and each has the type of the formal at its position
ArgsMatch ==
    /\ Len(stmt.args) = Len(defs[stmt.name].frmls)
    /\ \A i \in 1..Len(stmt.args) :
          /\ Opnd(stmt.args[i]).err = NoErr
          /\ Opnd(stmt.args[i]).type = defs[stmt.name].frmls[i].type

\* C18: call checking: PCll::chck and FCll::chck throw when the callee is not
\* in Defs, when the number of arguments is not the number of formals (one
\* argument to h of two formals: "needs 2 ... but got 1"), and when an
\* argument's type is not the formal's; an accepted procedure call returns
\* Void and an accepted function call has the callee's return type.
C18_CallChecking ==
    (Ended /\ stmt.k \in {"PCll", "FCll"}) =>
        /\ stmt.name \notin DOMAIN defs => pc = "error"
        /\ pc = "done" <=> (stmt.name \in DOMAIN defs /\ ArgsMatch)
        /\ (stmt.name = "h" /\ Len(stmt.args) = 1)
              => err = "fn  needs 2 number of args but got 1"
        /\ (pc = "done" /\ stmt.k = "PCll") => (out.rtns = Void /\ out.symt = symt)
        /\ (pc = "done" /\ stmt.k = "FCll") => out.type = defs[stmt.name].ret_type

\* C18 witness: a call of h with an int and a str has been checked and has
\* type str.
C18_Witness ==
    /\ pc = "done" /\ stmt.k = "FCll" /\ stmt.name = "h" /\ Len(stmt.args) = 2
    /\ out.type = STR_T

NoEntry == "no entry"

\* The operator type table: the type of operator k on operands of types a and
\* b (b = a for a unary operator), or NoEntry.
OpTable(k, a, b) ==
    CASE k = "Plus" -> IF a = INT_T /\ b = INT_T THEN INT_T
                       ELSE IF a = STR_T /\ b = STR_T THEN STR_T ELSE NoEntry
      [] k \in {"Mnus", "IDiv", "IMod"} -> IF a = INT_T /\ b = INT_T THEN INT_T ELSE NoEntry
      [] k = "Imus" -> IF a = INT_T THEN INT_T ELSE NoEntry
      [] k = "Tmes" -> IF a = INT_T /\ b = INT_T THEN INT_T
                       ELSE IF a = STR_T /\ b = INT_T THEN STR_T ELSE NoEntry
      [] k \in {"Cmlt", "Cmgt", "Cmle", "Cmge", "Cmeq"} ->
            IF a = INT_T /\ b = INT_T THEN BOOL_T ELSE NoEntry
      [] k \in {"Conj", "Disj"} -> IF a = BOOL_T /\ b = BOOL_T THEN BOOL_T ELSE NoEntry
      [] k = "Negt" -> IF a = BOOL_T THEN BOOL_T ELSE NoEntry
      [] k = "StrC" -> STR_T
      [] k = "Inpt" -> IF a = STR_T THEN STR_T ELSE NoEntry

\* the operands of the expression under check, in the order of their checks
OpndsOf(e) ==
    CASE e.k \in BinOps -> <<e.left, e.rght>>
      [] e.k \in CmpOps -> <<e.lft, e.rht>>
      [] e.k = "Inif" -> <<e.cond, e.if_br, e.else_br>>
      [] OTHER -> <<e.expn, e.expn>>

\* C19: operator type table: for operands of every type the expression check
\* accepts + only for (int,int)->int and (str,str)->str; -, //, % only for
\* (int,int)->int; unary minus only for int; * only for (int,int)->int and
\* (str,int)->str; the comparisons only for (int,int)->bool; and, or, not only
\* for bool; the ternary only with a bool condition and branches of one type,
\* which is its type; str() for any operand; input only for a str prompt; every
\* other combination is an error.
C19_OperatorTable ==
    (Ended /\ stmt.k \in BinOps \cup CmpOps \cup {"Imus", "Negt", "StrC", "Inpt", "Inif"}) =>
        LET os == OpndsOf(stmt)
        IN  IF \E i \in 1..Len(os) : Opnd(os[i]).err # NoErr
            THEN pc = "error"
            ELSE IF stmt.k = "Inif"
            THEN /\ pc = "done" <=> (Opnd(os[1]).type = BOOL_T
                                        /\ Opnd(os[2]).type = Opnd(os[3]).type)
                 /\ pc = "done" => out.type = Opnd(os[2]).type
            ELSE /\ pc = "done" <=>
                      OpTable(stmt.k, Opnd(os[1]).type, Opnd(os[2]).type) # NoEntry
                 /\ pc = "done" =>
                      out.type = OpTable(stmt.k, Opnd(os[1]).type, Opnd(os[2]).type)

\* C19 witness: a str times an int has been checked and has type str.
C19_Witness ==
    /\ pc = "done" /\ stmt.k = "Tmes"
    /\ Opnd(stmt.left).type = STR_T /\ Opnd(stmt.rght).type = INT_T
    /\ out.type = STR_T

\* C20: int-conversion: IntC::chck on an operand of type str or of type int
\* succeeds and returns int.
C20_IntCAcceptsStrOrInt ==
    (Ended /\ stmt.k = "IntC" /\ Opnd(stmt.expn).err = NoErr
        /\ Opnd(stmt.expn).type \in {STR_T, INT_T})
        => (pc = "done" /\ out.type = INT_T)

RECURSIVE BlckHasFRtn(_)
\* the statement is, or has in one of its blocks, a return of a value
StmtHasFRtn(s) ==
    CASE s.k = "FRtn" -> TRUE
      [] s.k \in {"Whil", "Rept"} -> BlckHasFRtn(s.body)
      [] s.k = "Cond" -> \/ \E i \in 1..Len(s.ifcds) : BlckHasFRtn(s.ifcds[i].body)
                         \/ s.els # NullPtr /\ BlckHasFRtn(s.els.body)
      [] OTHER -> FALSE
BlckHasFRtn(b) == \E i \in 1..Len(b.stmts) : StmtHasFRtn(b.stmts[i])

\* C15: a procedure (a definition of declared return type None) whose body
\* has a return of a value is rejected, whatever the type of the returned
\* expression.
C15_ProcedureReturnsValue ==
    (DefnChecked /\ defs[stmt.name].ret_type = NONE_T /\ BlckHasFRtn(defs[stmt.name].body))
        => (pc = "error" /\ ~Accepted)

\* In Spec: Prgm::run has returned or thrown, on a program Prgm::chck accepted.
Ran == pc = "ran"
\* the alternative of Valu that holds the values of a type
TagOf(type) ==
    IF is_int(type) THEN "int" ELSE IF is_str(type) THEN "string"
    ELSE IF is_bool(type) THEN "bool" ELSE "none"
\* the errors of a tag inspection that fails
TagErrors ==
    {WrongOperand(w) : w \in {"plus", "minus", "times", "quotient", "remainder"}}
      \cup {BadVariantAccess, "Cannot subtract strings"}
\* the declarations of the script's own block
MainNtros == {main.stmts[i] : i \in {j \in 1..Len(main.stmts) : main.stmts[j].k = "Ntro"}}

\* C11: the run of a program Prgm::chck accepted throws no wrong-operand-type
\* error and fails no std::get, and a variable the script's block declares
\* holds, whenever the run has bound it, a value of the alternative of its
\* declared type.
C11_CheckerSoundness ==
    Ran /\ main # NullPtr =>
        /\ ran.err \notin TagErrors
        /\ \A d \in MainNtros :
              d.name \in DOMAIN ran.ctxt => ran.ctxt[d.name].t = TagOf(d.type)

\* names the programs read
ReadNames == {"i", "j", "s", "b", "n", "x", "y", "z"}

\* C12: the run of a program Prgm::chck accepted never throws the
\* 'variable not defined' error of Lkup::eval.
C12_NoUndefinedRead ==
    Ran => ran.err \notin {NotDefinedAtRun(name) : name \in ReadNames}

\* C21: int-conversion: IntC::chck on an operand of type bool or of type None
\* throws a type error and returns no type.
C21_IntCRejectsBoolNone ==
    (Ended /\ stmt.k = "IntC" /\ Opnd(stmt.expn).err = NoErr
        /\ Opnd(stmt.expn).type \in {BOOL_T, NONE_T})
        => (pc = "error" /\ err = "Input requires a string or integer.")

\* C21 witness: the int-conversion of a bool operand has been checked and has
\* thrown.
C21_Witness ==
    /\ pc = "error" /\ stmt.k = "IntC" /\ Opnd(stmt.expn).err = NoErr
    /\ Opnd(stmt.expn).type = BOOL_T

\* the conditions of the conditional or loop under check, in the order of
\* their checks
CondsOf(s) == IF s.k = "Cond" THEN [i \in 1..Len(s.ifcds) |-> s.ifcds[i].cond] ELSE <<s.cond>>
\* the message of a condition of type tp: the index-th of a conditional
\* (counted from 0), or that of a loop
ConditionShouldBeBool(s, index, tp) ==
    CASE s.k = "Cond" -> "The condition at " \o to_string(index)
                            \o " should have type Bool but got " \o get_type_str(tp)
      [] s.k = "Whil" -> "The condition for while should have type Bool but got "
                            \o get_type_str(tp)
      [] s.k = "Rept" -> "The condition for repeat should have type Bool but got "
                            \o get_type_str(tp)
\* the first i conditions check and are of type bool
BoolUpTo(cs, i) == \A j \in 1..i : Opnd(cs[j]).err = NoErr /\ Opnd(cs[j]).type = BOOL_T

\* C22: the condition of every arm of a conditional and of every while and
\* repeat loop must be of type bool: the first condition of type int, str or
\* None makes the check throw the error of that condition, whatever the bodies
\* are (they are not checked before it), and the table is left as it was.
C22_ConditionsBool ==
    (Ended /\ stmt.k \in {"Cond", "Whil", "Rept"}) =>
        \A i \in 1..Len(CondsOf(stmt)) :
            (BoolUpTo(CondsOf(stmt), i - 1) /\ Opnd(CondsOf(stmt)[i]).err = NoErr
                /\ Opnd(CondsOf(stmt)[i]).type \in {INT_T, STR_T, NONE_T})
            => /\ pc = "error"
               /\ err = ConditionShouldBeBool(stmt, i - 1, Opnd(CondsOf(stmt)[i]).type)
               /\ out.symt = symt

\* C22 witness: a conditional whose elif condition is of type str, after an
\* if condition of type bool, has been checked and has thrown.
C22_Witness ==
    /\ pc = "error" /\ stmt.k = "Cond" /\ Len(stmt.ifcds) = 2
    /\ BoolUpTo(CondsOf(stmt), 1)
    /\ Opnd(stmt.ifcds[2].cond).err = NoErr /\ Opnd(stmt.ifcds[2].cond).type = STR_T

\* In Spec: the table the check of the script's block hands to its i-th
\* statement, and what the check of that statement returns or throws
RECURSIVE TableBefore(_, _)
TableBefore(i, ub) ==
    IF i = 1 THEN mark(NewSymT)
    ELSE Stmt_chck(main.stmts[i - 1], Void, defs, TableBefore(i - 1, ub), ub).symt
StmtOutcome(i, ub) == Stmt_chck(main.stmts[i], Void, defs, TableBefore(i, ub), ub)

\* the check of the script's block has thrown
MainThrew == pc = "error" /\ stmt.k = "main"
\* a check that throws ends the pass
ThrowEnds == err # NoErr => pc = "error"
\* the script is checked only after every definition has been accepted
ScriptLast == stmt.k = "main" => todo = {}
\* the throw comes from the first statement that fails, and the table is as
\* that statement left it: no later statement has been checked
FirstFailureEnds ==
    MainThrew =>
        \E ub \in NullDeref : \E i \in 1..Len(main.stmts) :
            /\ \A j \in 1..(i - 1) : StmtOutcome(j, ub).err = NoErr
            /\ StmtOutcome(i, ub).err = err
            /\ out.symt = StmtOutcome(i, ub).symt

\* C23: fail-fast: Prgm::chck checks the definitions first and the script
\* last; after a throw nothing more is checked (no further definition, not
\* the script), and in a block no statement after the one that throws is
\* checked.
C23_FailFast ==
    /\ [](ThrowEnds /\ ScriptLast /\ FirstFailureEnds)
    /\ [][pc # "error"]_vars

\* C23 witness: a definition has thrown while another definition and the
\* script are still unchecked.
C23_Witness ==
    /\ pc = "error" /\ stmt.k = "Defn" /\ main # NullPtr
    /\ \E name \in todo : name # stmt.name

\* In Spec: Defs as Prgm::chck found it; the check of a definition that throws
\* leaves that definition's own table as it was at the throw, and symt has
\* the table the check was handed
OrigDefs ==
    IF stmt.k = "Defn" /\ pc = "error" THEN [defs EXCEPT ![stmt.name].args = symt] ELSE defs
\* what the check of the definition name yields on Defs as Prgm::chck found
\* it, with no other definition checked before
AloneErrs(name) == {Defn_chck(OrigDefs[name], OrigDefs, ub).err : ub \in NullDeref}
\* a step of Prgm::chck changes no definition but, when its check throws, the
\* table of the one it checks
DefsKept ==
    /\ \A n \in DOMAIN defs : (stmt'.k # "Defn" \/ n # stmt'.name) => defs'[n] = defs[n]
    /\ pc' # "error" => defs' = defs
\* each definition visited so far got a verdict it gets alone
VerdictAlone ==
    /\ \A name \in (DOMAIN defs) \ todo : NoErr \in AloneErrs(name)
    /\ (pc = "error" /\ stmt.k = "Defn") => err \in AloneErrs(stmt.name)

\* C24: order independence of the checks of the definitions: a check changes
\* nothing in Defs (on success the definition's own table is as before), so
\* in whatever order the definitions are visited each one is accepted, or
\* rejected with its error, as it is when checked alone.
C24_OrderIndependence == [](VerdictAlone) /\ [][DefsKept]_vars

\* C24 witness: ev, which calls od, has been accepted after od, which calls
\* ev, was.
C24_Witness ==
    /\ pc = "defs" /\ todo = {} /\ stmt.k = "Defn" /\ stmt.name = "ev"
    /\ DOMAIN defs = {"ev", "od"}

\* In SpecChck: the check of the node under check once more, from the table st
Recheck(st, ub) ==
    CASE stmt.k = "Blck" -> Blck_chck(stmt, expd, defs, st, ub)
      [] stmt.k = "Defn" -> Defn_chck([stmt EXCEPT !.args = st], defs, ub)
      [] OTHER -> Stmt_chck(stmt, expd, defs, st, ub)
\* the merge of Cond::chck applied to a behaviour and itself
SelfMerge(rtns) ==
    CondMerge(rtns, type_of(rtns), IsVoid(rtns), has_void(rtns), rtns, "1 if")

SignaturesFor(name) ==
    [n \in DOMAIN defs |-> IF n = name THEN OrigDefs[n] ELSE [OrigDefs[n] EXCEPT !.body = Blck(<<>>)]]
\* the check of a definition reads the signatures of the others only
SignatureOnly ==
    (stmt.k = "Defn" /\ pc \in {"defs", "error"}) =>
        \E ub \in NullDeref : Defn_chck(OrigDefs[stmt.name], SignaturesFor(stmt.name), ub).err = err

\* C26: checking is total: the check of every definition and of the script,
\* with calls of the definition itself, of each other and of definitions
\* checked later, ends, by completing or by throwing a semantic error, and a
\* call's check reads the callee's signature only.
C26_CheckingTotal == err # Crash /\ SignatureOnly

\* In Spec: the script declares i with the value of a call, without
\* arguments, of a definition whose body starts with a loop; the loop, and
\* what the first execution of its body returns or throws
CallsLoop == main \in LoopMains
FirstLoop == defs[main.stmts[1].expn.name].body.stmts[1]
FirstPass == Blck_exec(FirstLoop.body, defs, EmptyCtxt, [fuel |-> MaxSteps, cin |-> "a"])

\* C27: a return executed in the body of a while or repeat loop ends the
\* enclosing function: the loop stops and the call has the value returned.
C27_ReturnInLoopEndsFunction ==
    (Ran /\ CallsLoop /\ FirstPass.err = NoErr /\ FirstPass.rv.t # NullOpt.t) =>
        /\ ran.err = NoErr
        /\ ran.ctxt["i"] = FirstPass.rv

\* the errors of Blck::chck and Defn::chck about a return of another type
OtherTypeErrors ==
    {"Statement might return different types."}
      \cup {ReturnsOther(t, u) : t \in Type, u \in Type}
      \cup {"Statement returns " \o get_type_str(t) \o " but previous statement returns "
               \o get_type_str(u) \o "." : t \in Type, u \in Type}

BoundInnermost(st, name, type) ==
    [i \in 1..Len(st) |->
        IF i < Len(st) THEN st[i]
        ELSE [n \in (DOMAIN st[i]) \cup {name} |-> IF n = name THEN type ELSE st[i][n]]]

\* C29: Ntro::chck tests the redefinition first (a name of the innermost frame
\* is rejected even when the initializer does not check), then checks the
\* initializer in the table as handed over, where the innermost frame does not
\* have the name yet, binds the name in the innermost frame to the
\* initializer's type and returns Void; the type the declaration writes plays
\* no part.
C29_Declaration ==
    (Ended /\ stmt.k = "Ntro") =>
        IF stmt.name \in DOMAIN Innermost(symt)
        THEN pc = "error" /\ err = AlreadyIntroduced(stmt.name) /\ out.symt = symt
        ELSE IF Opnd(stmt.expn).err # NoErr
        THEN pc = "error" /\ err = Opnd(stmt.expn).err /\ out.symt = symt
        ELSE /\ pc = "done" /\ out.rtns = Void
             /\ out.symt = BoundInnermost(symt, stmt.name, Opnd(stmt.expn).type)

\* C29 witness: a declaration whose initializer has another type than the one
\* it writes has been checked, and the name is bound to the initializer's type.
C29_Witness ==
    /\ pc = "done" /\ stmt.k = "Ntro" /\ stmt.type # Opnd(stmt.expn).type
    /\ Innermost(out.symt)[stmt.name] = Opnd(stmt.expn).type

\* In Spec: the environment of the run of a script that reads no input, the
\* context in which the script's i-th statement starts, and what the
\* execution of that statement yields
RunEnv == [fuel |-> MaxSteps, cin |-> "a"]
RECURSIVE CtxtBefore(_)
CtxtBefore(i) ==
    IF i = 1 THEN EmptyCtxt
    ELSE Stmt_exec(main.stmts[i - 1], defs, CtxtBefore(i - 1), RunEnv).ctxt
Executed(i) == Stmt_exec(main.stmts[i], defs, CtxtBefore(i), RunEnv)
\* the context of the callee fn at the start of its body, for a call with the
\* arguments args from the context ctxt: a copy of ctxt with each formal bound
\* to the value its argument has in ctxt
CalleeCtxt(fn, args, ctxt) ==
    [n \in (DOMAIN ctxt) \cup {get_frml(fn, i).name : i \in 0..(arity(fn) - 1)} |->
        IF \E i \in 0..(arity(fn) - 1) : get_frml(fn, i).name = n
        THEN Eval(args[(CHOOSE i \in 0..(arity(fn) - 1) : get_frml(fn, i).name = n) + 1],
                  defs, ctxt, RunEnv).valu
        ELSE ctxt[n]]
\* the value of that call: what the body returns, None when it returns nothing
CalleeValue(fn, args, ctxt) ==
    LET r == Blck_exec(fn.body, defs, CalleeCtxt(fn, args, ctxt),
                       [RunEnv EXCEPT !.fuel = @ - 1])
    IN  IF r.rv.t = NullOpt.t THEN None ELSE r.rv

\* C30: a call leaves the caller's context unchanged: the callee runs in a
\* copy of it with the formals bound to the values the arguments have in the
\* caller's context; after a call statement the caller's context is as
\* before, and after a declaration whose initializer is a call it differs in
\* the declared name only, which has the value the body returned, or None
\* when the body returned no value.
C30_CallLeavesCallerContext ==
    (Ran /\ main \in WriteMains) =>
        /\ ran.err = NoErr
        /\ ran.ctxt = Executed(Len(main.stmts)).ctxt
        /\ \A i \in 1..Len(main.stmts) :
              LET s == main.stmts[i]
              IN  /\ s.k = "PCll" => Executed(i).ctxt = CtxtBefore(i)
                  /\ (s.k = "Ntro" /\ s.expn.k = "FCll") =>
                        Executed(i).ctxt =
                            CtxtSet(CtxtBefore(i), s.name,
                                    CalleeValue(defs[s.expn.name], s.expn.args, CtxtBefore(i)))

\* C30 witness: after the run the script's i has the value the script gave
\* it, though the callee s declared an i of its own, j has the value of the
\* call, n is None, and the names of the callees are not bound.
C30_Witness ==
    /\ Ran /\ main \in WriteMains /\ ran.err = NoErr
    /\ DOMAIN ran.ctxt = {"i", "j", "n"}
    /\ ran.ctxt["i"] = IntV(1) /\ ran.ctxt["j"] = IntV(6) /\ ran.ctxt["n"] = None
====
